---- MODULE Spec2Model ----
(***************************************************************************)
(* A model of the project scanner of the Qry repository: the generic       *)
(* scanner (src/unnamed/part_001) and its JavaWeb variant                  *)
(* (src/ia-scanner.cjs).  Both are the same program up to a handful of     *)
(* lines; the variable `variant` selects which of the two is running.      *)
(*                                                                         *)
(* Strings are sequences of one-character strings, so that startsWith,     *)
(* includes, extname and the wildcard regular expressions are computed     *)
(* character by character, as the code computes them.                      *)
(***************************************************************************)
EXTENDS Integers, Sequences, FiniteSets, TLC

(***************************************************************************)
(* Bounds of the model.                                                    *)
(***************************************************************************)
\* at most this many fault sites fail in one behaviour
MaxFaults == 1
\* at most this many calls of generateOverview in one behaviour
MaxRuns == 2
\* at most this many size warnings in one behaviour of direct calls
MaxWarnings == 1
\* Qry.delegate is called while fewer than this many listeners are attached
MaxDelegates == 1
\* at most this many events dispatched in one behaviour
MaxDispatches == 1
\* toast.show is called while fewer than this many toasts were created
MaxToasts == 2
\* a close button is clicked while fewer than this many clicks were made
MaxClicks == 1
\* QryEnv.action / QryEnv.api is called while fewer than this many calls were made
MaxCalls == 2

(***************************************************************************)
(* Strings.                                                                *)
(***************************************************************************)
LowerChars == <<"a", "b", "c", "d", "e", "f", "g", "h", "i", "j", "k", "l", "m",
                "n", "o", "p", "q", "r", "s", "t", "u", "v", "w", "x", "y", "z">>
UpperChars == <<"A", "B", "C", "D", "E", "F", "G", "H", "I", "J", "K", "L", "M",
                "N", "O", "P", "Q", "R", "S", "T", "U", "V", "W", "X", "Y", "Z">>

\* the letters that change with the case, each with its counterpart
lowerOf == [c \in {UpperChars[i] : i \in 1..26} |->
               LowerChars[CHOOSE i \in 1..26 : UpperChars[i] = c]]
upperOf == [c \in {LowerChars[i] : i \in 1..26} |->
               UpperChars[CHOOSE i \in 1..26 : LowerChars[i] = c]]

\* String.prototype.toLowerCase, one character
toLowerChar(c) == IF c \in DOMAIN lowerOf THEN lowerOf[c] ELSE c

\* String.prototype.toUpperCase, one character
toUpperChar(c) == IF c \in DOMAIN upperOf THEN upperOf[c] ELSE c

toLowerCase(s) == [i \in 1..Len(s) |-> toLowerChar(s[i])]
toUpperCase(s) == [i \in 1..Len(s) |-> toUpperChar(s[i])]

\* s.slice(k) for k >= 0: the string from (0-based) index k on
slice(s, k) == SubSeq(s, k + 1, Len(s))

\* String.prototype.startsWith
startsWith(s, p) == Len(p) <= Len(s) /\ SubSeq(s, 1, Len(p)) = p

\* String.prototype.includes
includes(s, p) ==
    \E k \in 0..(Len(s) - Len(p)) : SubSeq(s, k + 1, k + Len(p)) = p

\* Array.prototype.join over path segments, as path.join / path.relative
\* produce it on a POSIX host (replace(/\\/g, '/') then changes nothing)
RECURSIVE join(_, _)
join(segs, sep) ==
    IF Len(segs) = 0 THEN <<>>
    ELSE IF Len(segs) = 1 THEN segs[1]
    ELSE segs[1] \o sep \o join(Tail(segs), sep)

\* path.relative(rootDir, filePath): a path of the model is the sequence of
\* names below rootDir
relative(path) == join(path, <<"/">>)

\* path.basename(filePath)
basename(path) == path[Len(path)]

\* path.extname: from the last '.' of the base name to its end; empty when
\* there is no '.', or when the only '.' is the first character
extname(name) ==
    LET dots == {i \in 1..Len(name) : name[i] = "."}
        last == CHOOSE i \in dots : \A j \in dots : j <= i
    IN  IF dots = {} THEN <<>>
        ELSE IF last = 1 THEN <<>>
        ELSE SubSeq(name, last, Len(name))

(***************************************************************************)
(* new RegExp(ignoredPath.replace(/\*/g, '.*')).test(s).  The patterns of  *)
(* the model are made of letters, digits, '/', '-', '_', '.' and '*': a    *)
(* '*' becomes '.*' (any run of characters), a '.' matches any one         *)
(* character, every other character matches itself, and the expression is  *)
(* not anchored.                                                           *)
(***************************************************************************)
RECURSIVE regexMatchHere(_, _)
regexMatchHere(pat, s) ==
    IF Len(pat) = 0 THEN TRUE
    ELSE IF pat[1] = "*"
         THEN \E k \in 0..Len(s) : regexMatchHere(Tail(pat), slice(s, k))
    ELSE IF Len(s) = 0 THEN FALSE
    ELSE IF pat[1] = "." THEN regexMatchHere(Tail(pat), Tail(s))
    ELSE pat[1] = s[1] /\ regexMatchHere(Tail(pat), Tail(s))

regexTest(pat, s) == \E k \in 0..Len(s) : regexMatchHere(pat, slice(s, k))

(***************************************************************************)
(* String.prototype.localeCompare on the names of the model (lower-case    *)
(* letters, digits and punctuation): the collation puts '_', '-', '.', '/' *)
(* before the digits, the digits before the letters, and orders letters    *)
(* alphabetically; a proper prefix sorts first.                            *)
(***************************************************************************)
CollationOrder ==
    <<"_", "-", ".", "/", "0", "1", "2", "3", "4", "5", "6", "7", "8", "9">> \o LowerChars

charRank(c) ==
    IF \E i \in 1..Len(CollationOrder) : CollationOrder[i] = c
    THEN CHOOSE i \in 1..Len(CollationOrder) : CollationOrder[i] = c
    ELSE Len(CollationOrder) + 1

RECURSIVE localeCompare(_, _)
localeCompare(a, b) ==
    IF Len(a) = 0 /\ Len(b) = 0 THEN 0
    ELSE IF Len(a) = 0 THEN -1
    ELSE IF Len(b) = 0 THEN 1
    ELSE IF charRank(a[1]) < charRank(b[1]) THEN -1
    ELSE IF charRank(a[1]) > charRank(b[1]) THEN 1
    ELSE localeCompare(Tail(a), Tail(b))

(***************************************************************************)
(* Names, patterns and configuration values of the two scanners.           *)
(***************************************************************************)
N_a_js == <<"a", ".", "j", "s">>
N_src == <<"s", "r", "c">>
N_c_js == <<"c", ".", "j", "s">>
N_generate_overview == <<"-", "g", "e", "n", "e", "r", "a", "t", "e", "-", "o", "v", "e", "r",
                         "v", "i", "e", "w", ".", "c", "j", "s">>
N_ia_scanner == <<"i", "a", "-", "s", "c", "a", "n", "n", "e", "r", ".", "c", "j", "s">>
N_scanner == <<"-", "s", "c", "a", "n", "n", "e", "r", ".", "c", "j", "s">>
N_JavaWeb_txt == <<"J", "a", "v", "a", "W", "e", "b", ".", "t", "x", "t">>
N_LICENCE == <<"L", "I", "C", "E", "N", "C", "E">>
N_package_lock == <<"p", "a", "c", "k", "a", "g", "e", "-", "l", "o", "c", "k", ".", "j", "s",
                    "o", "n">>
N_node_modules == <<"n", "o", "d", "e", "_", "m", "o", "d", "u", "l", "e", "s">>
N_git == <<".", "g", "i", "t">>
N_dist == <<"d", "i", "s", "t">>
N_build == <<"b", "u", "i", "l", "d">>
N_idea == <<".", "i", "d", "e", "a">>
N_target == <<"t", "a", "r", "g", "e", "t">>
N_index_js == <<"i", "n", "d", "e", "x", ".", "j", "s">>
N_x_js == <<"x", ".", "j", "s">>
N_builder == <<"b", "u", "i", "l", "d", "e", "r">>
N_rebuild_js == <<"r", "e", "b", "u", "i", "l", "d", ".", "j", "s">>
N_lib == <<"l", "i", "b">>
N_dot_x_js == <<".", "x", ".", "j", "s">>
N_A_JS == <<"A", ".", "J", "S">>
N_a_txt == <<"a", ".", "t", "x", "t">>
N_b_md == <<"b", ".", "m", "d">>
P_src_c_js == <<"s", "r", "c", "/", "c", ".", "j", "s">>
P_sr_star == <<"s", "r", "*">>
S_Overview_txt == <<"O", "v", "e", "r", "v", "i", "e", "w", ".", "t", "x", "t">>
S_NONE == <<"N", "O", "N", "E">>

Variants == {"generic", "javaweb"}

\* this.#projectName: the generic scanner takes the base name of the working
\* directory (here a directory named qry), the JavaWeb scanner forces 'JavaWeb'
projectName(v) ==
    IF v = "generic" THEN <<"q", "r", "y">>
    ELSE <<"J", "a", "v", "a", "W", "e", "b">>

\* the base name of defaultConfig.outputFile, a file of the scanner's own
\* directory, which is also defaultConfig.rootDir
outputName(v) ==
    IF v = "generic" THEN <<"_">> \o projectName(v) \o S_Overview_txt
    ELSE N_JavaWeb_txt

\* the names both walks skip unconditionally, and isDocFile of
\* shouldProcessContent tests
isDocFile(v, filename) ==
    IF v = "generic"
    THEN filename = outputName(v) \/ filename = N_generate_overview
    ELSE filename = N_JavaWeb_txt \/ filename = N_ia_scanner \/ filename = N_scanner

defaultIgnoredPaths(v) ==
    IF v = "generic"
    THEN <<N_LICENCE, N_generate_overview, N_package_lock, outputName(v), N_node_modules,
           N_git, N_dist, N_build, N_idea, N_target>>
    ELSE <<N_LICENCE, N_scanner, N_package_lock, N_JavaWeb_txt, N_node_modules,
           N_git, N_dist, N_build, N_idea, N_target>>

defaultAcceptedExtensions ==
    << <<".", "j", "s">>,
       <<".", "c", "s", "s">>,
       <<".", "h", "t", "m", "l">>,
       <<".", "j", "s", "x">>,
       <<".", "t", "s">>,
       <<".", "t", "s", "x">>,
       <<".", "j", "s", "o", "n">>,
       <<".", "m", "d">>,
       <<".", "j", "a", "v", "a">>,
       <<".", "x", "m", "l">>,
       <<".", "p", "r", "o", "p", "e", "r", "t", "i", "e", "s">> >>

defaultMaxFileSize == 10 * 1024 * 1024

\* defaultConfig of the constructor (rootDir, encoding and verboseLogging do
\* not vary in the model; outputFile is the base name of a file of rootDir)
defaultConfig(v) ==
    [outputFile |-> outputName(v),
     ignoredPaths |-> defaultIgnoredPaths(v),
     acceptedExtensions |-> defaultAcceptedExtensions,
     maxFileSize |-> defaultMaxFileSize,
     includeHashes |-> TRUE,
     includeTOC |-> TRUE,
     includeLineCount |-> TRUE]

\* the customConfig objects of the model, merged over the defaults as
\* { ...defaultConfig, ...customConfig } merges them
Configs(v) ==
    { defaultConfig(v),
      [defaultConfig(v) EXCEPT !.ignoredPaths = <<>>],
      [defaultConfig(v) EXCEPT !.ignoredPaths = <<P_src_c_js>>],
      [defaultConfig(v) EXCEPT !.ignoredPaths = <<P_sr_star>>, !.includeHashes = FALSE] }

(***************************************************************************)
(* The directory tree under rootDir: one record per entry, its path being  *)
(* the sequence of names below rootDir; content is a file's text, one      *)
(* character per byte, and size what fs.stat reports.  The tree does not   *)
(* change during a behaviour, except for the report file, which the run    *)
(* itself deletes and creates.                                             *)
(***************************************************************************)
\* file contents: ten characters with no '\n', and two lines of one character
T_ten == <<"l", "e", "t", " ", "a", " ", "=", " ", "1", ";">>
T_two_lines == <<"x", "\n", "y">>

fileEntry(path, content) ==
    [path |-> path, isDirectory |-> FALSE, size |-> Len(content), content |-> content]

dirEntry(path) ==
    [path |-> path, isDirectory |-> TRUE, size |-> 4096, content |-> <<>>]

TreeA ==
    { fileEntry(<<N_a_js>>, T_ten),
      dirEntry(<<N_src>>),
      fileEntry(<<N_src, N_c_js>>, T_two_lines) }

Trees == {TreeA}

\* a tree with directories named node_modules at the root and below src
TreeB ==
    { dirEntry(<<N_node_modules>>),
      fileEntry(<<N_node_modules, N_index_js>>, T_two_lines),
      dirEntry(<<N_src>>),
      dirEntry(<<N_src, N_node_modules>>),
      fileEntry(<<N_src, N_node_modules, N_c_js>>, T_ten),
      fileEntry(<<N_src, N_a_js>>, <<"z">>) }

\* a.txt of ten bytes with no trailing newline, and the empty b.md
TreeC ==
    { fileEntry(<<N_a_txt>>, T_ten),
      fileEntry(<<N_b_md>>, <<>>) }

\* further pairs of a tree and a customConfig
Scenarios(v) ==
    LET textConfig == [defaultConfig(v) EXCEPT
                          !.acceptedExtensions = << <<".", "t", "x", "t">>, <<".", "m", "d">> >>]
    IN  { [tree |-> TreeB, config |-> defaultConfig(v)],
          [tree |-> TreeB, config |-> [defaultConfig(v) EXCEPT !.ignoredPaths = <<>>]],
          [tree |-> TreeC, config |-> [textConfig EXCEPT !.maxFileSize = 10]],
          [tree |-> TreeC, config |-> [textConfig EXCEPT !.maxFileSize = 9,
                                                         !.includeHashes = FALSE,
                                                         !.includeLineCount = FALSE]] }

rootDir == <<>>

Dirs(t) == {rootDir} \cup {e.path : e \in {x \in t : x.isDirectory}}

\* the names of the entries of directory d of tree t
Children(t, d) ==
    {e.path[Len(e.path)] : e \in {x \in t : /\ Len(x.path) = Len(d) + 1
                                          /\ SubSeq(x.path, 1, Len(d)) = d}}

Perms(S) ==
    {s \in [1..Cardinality(S) -> S] : \A i, j \in 1..Cardinality(S) : s[i] = s[j] => i = j}

\* the orders fs.readdir may list the directories in: any order of the names;
\* the report file is one of the names of rootDir
Names(t, o, d) == Children(t, d) \cup (IF d = rootDir THEN {o} ELSE {})

Listings(t, o) ==
    {l \in [Dirs(t) -> UNION {Perms(Names(t, o, d)) : d \in Dirs(t)}] :
        \A d \in Dirs(t) : l[d] \in Perms(Names(t, o, d))}

(***************************************************************************)
(* Fault sites: the filesystem calls of a run that fail.  A site names the *)
(* call (op), the walks it fails in (at) and the path it fails on; it      *)
(* fails every time the run reaches it.                                    *)
(***************************************************************************)
Files(t) == {e.path : e \in {x \in t : ~x.isDirectory}}

Phases == {{"tree"}, {"files"}, {"tree", "files"}}

FaultSites(t, report) ==
    {[op |-> "unlink", at |-> {"start"}, path |-> rootDir],
     [op |-> "writeFile", at |-> {"header"}, path |-> rootDir],
     [op |-> "appendFile", at |-> {"tree"}, path |-> rootDir],
     [op |-> "appendFile", at |-> {"toc"}, path |-> rootDir],
     [op |-> "appendFile", at |-> {"summary"}, path |-> rootDir],
     [op |-> "stat", at |-> {"files"}, path |-> <<report>>]}
    \cup {[op |-> "readdir", at |-> ph, path |-> d] : ph \in Phases, d \in Dirs(t)}
    \cup {[op |-> "stat", at |-> ph, path |-> e.path] : ph \in Phases, e \in t}
    \cup {[op |-> o, at |-> {"files"}, path |-> f] :
             o \in {"stat2", "readFile", "hash", "appendFile"}, f \in Files(t)}

RECURSIVE FaultSets(_, _)
FaultSets(sites, k) ==
    IF k = 0 THEN {{}}
    ELSE LET prev == FaultSets(sites, k - 1)
         IN  prev \cup {F \cup {s} : F \in prev, s \in sites}

VARIABLES
    variant,        \* which scanner runs: src/unnamed/part_001 or src/ia-scanner.cjs
    config,         \* this.config
    tree,           \* the directory tree under rootDir
    listing,        \* the order fs.readdir lists each directory in
    faults,         \* the fault sites that fail
    outExists,      \* whether the report file exists
    out,            \* the content of the report file, a sequence of chunks
    stats,          \* this.stats
    pc,             \* the position of generateOverview / main
    runs,           \* the number of calls of generateOverview so far
    rejection,      \* the error generateOverview rejected with
    walk,           \* generateDirectoryStructure: the stack of its activations
    directoryStructure, \* the text generateDirectoryStructure returned
    pfStack,        \* processFiles: the stack of processDirectory activations
    cur,            \* processFiles: the file in process
    processedFiles, \* processFiles: its processedFiles array
    console,        \* what was written with console.error and #log warn/error
    exitCode,       \* the exit status of the process main() ran in
    unlinkResult,   \* how fs.unlink ended in this run
    nonDirStatOk,   \* history: entries processFiles stat-ed that are no directories
    statsAtEntry,   \* history: this.stats when processFiles turned to its entry
    writeFailed,    \* history: a write to the report file failed in this run
    runEnd,         \* history: this.stats at the end of each run
    runInfo,        \* history: of each run, whether its Scanner was new, and its sections
    visited,        \* history: the entries each walk of this run has stat-ed, in order
    call,           \* the last direct call of a method of the Scanner
    qry,            \* Qry.js: the Qry object at hand, its #element, #elements, #isCollection
    qcall,          \* Qry.js: the last traversal call and the object it returned
    listeners,      \* Qry.js: the listeners delegate added, in the order added
    events,         \* Qry.js: the events dispatched so far
    invocations,    \* Qry.js: the calls of delegated handlers so far
    framework,      \* which class was constructed: QryEnv (src/QryEnv.js) or QryApp
    now,            \* Date.now(), in milliseconds since the construction
    toasts,         \* the toast elements created, in creation order
    timers,         \* the setTimeout callbacks not yet run, in the order they were set
    clicks,         \* the number of clicks on close buttons so far
    loadingHidden,  \* whether #qry-loading has the class hide
    calls           \* the action / api calls so far, and how each ended

\* the variables of the page, which the scanner does not touch
qryVars == <<qry, qcall, listeners, events, invocations>>
uiVars == <<framework, now, toasts, timers, clicks, loadingHidden, calls>>
pageVars == <<qryVars, uiVars>>
envVars == <<variant, config, tree, listing, faults, call, pageVars>>
histVars == <<nonDirStatOk, statsAtEntry, writeFailed, runEnd, runInfo, visited>>
vars == <<variant, config, tree, listing, faults, outExists, out, stats, pc, runs,
          rejection, walk, directoryStructure, pfStack, cur, processedFiles, console,
          exitCode, unlinkResult, nonDirStatOk, statsAtEntry, writeFailed, runEnd,
          runInfo, visited, call, pageVars>>
\* the variables of the scanner, which the page does not touch
scannerVars == <<variant, config, tree, listing, faults, outExists, out, stats, pc,
                 runs, rejection, walk, directoryStructure, pfStack, cur,
                 processedFiles, console, exitCode, unlinkResult, histVars, call>>

\* this.stats as the constructor sets it (processingTime is not modelled)
emptyStats ==
    [filesProcessed |-> 0,
     skippedFiles |-> 0,
     totalSize |-> 0,
     totalLines |-> 0,
     errors |-> <<>>,
     warnings |-> <<>>,
     fileTypes |-> <<>>,
     largestFiles |-> <<>>]

\* the null of `const hash`, and of a value not yet computed
NullHash == <<>>

NoFile == [path |-> <<>>, size |-> 0, content |-> <<>>, hash |-> NullHash]
NoError == [op |-> "none", at |-> "none", path |-> <<>>]
NoCall == [fn |-> "none", path |-> <<>>, statOk |-> FALSE, size |-> 0, value |-> FALSE]

\* a Qry object wrapping nothing; 0 stands for null among the elements
NoQry == [element |-> 0, elements |-> <<>>, isCollection |-> FALSE]
NoQryCall == [method |-> "none", receiver |-> NoQry, arg |-> <<>>, value |-> NoQry]

\* the page before any script has acted on it
NoPage ==
    /\ qry = NoQry
    /\ qcall = NoQryCall
    /\ listeners = <<>>
    /\ events = <<>>
    /\ invocations = <<>>
    /\ framework = "none"
    /\ now = 0
    /\ toasts = <<>>
    /\ timers = <<>>
    /\ clicks = 0
    /\ loadingHidden = TRUE
    /\ calls = <<>>

\* the state after new Scanner(folderName, customConfig), before any call,
\* for the scanner, the configuration and the tree chosen
Constructed ==
    /\ listing \in Listings(tree, config.outputFile)
    /\ faults \in FaultSets(FaultSites(tree, config.outputFile), MaxFaults)
    /\ outExists \in BOOLEAN
    /\ out = <<>>
    /\ stats = emptyStats
    /\ pc = "constructed"
    /\ runs = 0
    /\ rejection = NoError
    /\ walk = <<>>
    /\ directoryStructure = <<>>
    /\ pfStack = <<>>
    /\ cur = NoFile
    /\ processedFiles = <<>>
    /\ console = <<>>
    /\ exitCode = -1
    /\ unlinkResult = "none"
    /\ nonDirStatOk = 0
    /\ statsAtEntry = emptyStats
    /\ writeFailed = FALSE
    /\ runEnd = <<>>
    /\ runInfo = <<>>
    /\ visited = <<>>
    /\ call = NoCall
    /\ NoPage

Init ==
    /\ variant \in Variants
    /\ config \in Configs(variant)
    /\ tree \in Trees
    /\ Constructed

InitScenarios ==
    /\ variant \in Variants
    /\ \E sc \in Scenarios(variant) : tree = sc.tree /\ config = sc.config
    /\ Constructed
    /\ ~outExists

(***************************************************************************)
(* The filesystem, as the run sees it.                                     *)
(***************************************************************************)
\* whether the call op fails on path in the walk (or step) at
Fails(op, at, path) ==
    \E f \in faults : f.op = op /\ at \in f.at /\ f.path = path

\* the bytes of the report file as written so far, one stand-in byte for
\* each chunk
reportBytes == [k \in 1..Len(out) |-> "#"]

\* fs.stat(filePath) when it succeeds, and what fs.readFile gives (content)
Stat(path) ==
    IF path = <<config.outputFile>>
    THEN [path |-> path, isDirectory |-> FALSE, size |-> Len(reportBytes),
          content |-> reportBytes]
    ELSE CHOOSE e \in tree : e.path = path

\* fs.readdir(dir) when it succeeds
readdir(dir) ==
    SelectSeq(listing[dir], LAMBDA n : n # config.outputFile \/ outExists)

pushError(s, e) == [s EXCEPT !.errors = Append(@, e)]
pushWarning(s, w) == [s EXCEPT !.warnings = Append(@, w)]

\* this.#log(message, level) for the levels that are always printed, and
\* console.error
log(c, level, kind, path) == Append(c, [level |-> level, kind |-> kind, path |-> path])

(***************************************************************************)
(* shouldProcessContent.                                                   *)
(***************************************************************************)
\* isIgnored with the '/' left out of the prefix rule
isIgnoredByFragment(ignoredPaths, path) ==
    LET relativePath == relative(path)
        filename == basename(path)
    IN  \E i \in 1..Len(ignoredPaths) :
            LET ignoredPath == ignoredPaths[i]
            IN  IF includes(ignoredPath, <<"*">>)
                THEN regexTest(ignoredPath, relativePath)
                ELSE \/ relativePath = ignoredPath
                     \/ startsWith(relativePath, ignoredPath)
                     \/ includes(relativePath, <<"/">> \o ignoredPath \o <<"/">>)
                     \/ filename = ignoredPath

\* isIgnored without the rule for a directory below the root
isIgnoredNoInnerRule(ignoredPaths, path) ==
    LET relativePath == relative(path)
        filename == basename(path)
    IN  \E i \in 1..Len(ignoredPaths) :
            LET ignoredPath == ignoredPaths[i]
            IN  IF includes(ignoredPath, <<"*">>)
                THEN regexTest(ignoredPath, relativePath)
                ELSE \/ relativePath = ignoredPath
                     \/ startsWith(relativePath, ignoredPath \o <<"/">>)
                     \/ filename = ignoredPath

\* isIgnored of shouldProcessContent: the five ignore rules
isIgnored(ignoredPaths, path) ==
    LET relativePath == relative(path)
        filename == basename(path)
    IN  \E i \in 1..Len(ignoredPaths) :
            LET ignoredPath == ignoredPaths[i]
            IN  IF includes(ignoredPath, <<"*">>)
                THEN regexTest(ignoredPath, relativePath)
                ELSE \/ relativePath = ignoredPath
                     \/ startsWith(relativePath, ignoredPath \o <<"/">>)
                     \/ includes(relativePath, <<"/">> \o ignoredPath \o <<"/">>)
                     \/ filename = ignoredPath

\* the value shouldProcessContent returns once its fs.stat has succeeded with
\* a size within maxFileSize
contentEligible(path) ==
    /\ ~isIgnored(config.ignoredPaths, path)
    /\ ~isDocFile(variant, basename(path))
    /\ \E i \in 1..Len(config.acceptedExtensions) :
           config.acceptedExtensions[i] = toLowerCase(extname(basename(path)))
    /\ ~startsWith(basename(path), <<".">>)

\* shouldProcessContent with `>=` for the `>` of the size test
shouldProcessContentSizeBelow(filePath, statOk, size) ==
    LET tooLarge == statOk /\ size >= config.maxFileSize
    IN  [value |-> statOk /\ ~tooLarge /\ contentEligible(filePath),
         warning |-> tooLarge]

\* shouldProcessContent with the `return false` of the size test left out
shouldProcessContentNoReturn(filePath, statOk, size) ==
    [value |-> statOk /\ contentEligible(filePath),
     warning |-> statOk /\ size > config.maxFileSize]

\* shouldProcessContent(filePath, rootDir), for what its fs.stat gives: the
\* value it returns, and whether it pushes the size warning
shouldProcessContent(filePath, statOk, size) ==
    LET tooLarge == statOk /\ size > config.maxFileSize
    IN  [value |-> statOk /\ ~tooLarge /\ contentEligible(filePath),
         warning |-> tooLarge]

(***************************************************************************)
(* generateDirectoryStructure.                                             *)
(***************************************************************************)
\* isIgnored of generateDirectoryStructure: the walker's own ignore rules
\* (the JavaWeb scanner has one rule more than the generic one)
isIgnoredInTree(v, ignoredPaths, path) ==
    LET relativePath == relative(path)
        file == basename(path)
    IN  \E i \in 1..Len(ignoredPaths) :
            LET ignoredPath == ignoredPaths[i]
            IN  IF includes(ignoredPath, <<"*">>)
                THEN regexTest(ignoredPath, file) \/ regexTest(ignoredPath, relativePath)
                ELSE \/ file = ignoredPath
                     \/ startsWith(relativePath, ignoredPath \o <<"/">>)
                     \/ /\ v = "javaweb"
                        /\ includes(relativePath, <<"/">> \o ignoredPath \o <<"/">>)

\* the comparator without its first term: by name only
compareItemsByName(a, b) == localeCompare(a.name, b.name)

\* the comparator of validFiles.sort: directories first, then by name
compareItems(a, b) ==
    LET byKind == (IF b.isDirectory THEN 1 ELSE 0) - (IF a.isDirectory THEN 1 ELSE 0)
    IN  IF byKind # 0 THEN byKind ELSE localeCompare(a.name, b.name)

RECURSIVE insertItem(_, _)
insertItem(x, s) ==
    IF Len(s) = 0 THEN <<x>>
    ELSE IF compareItems(x, s[1]) <= 0 THEN <<x>> \o s
    ELSE <<s[1]>> \o insertItem(x, Tail(s))

\* validFiles.sort(...), a stable sort
RECURSIVE sortItems(_)
sortItems(s) ==
    IF Len(s) = 0 THEN <<>> ELSE insertItem(s[1], sortItems(Tail(s)))

\* the prefix with the item's own flag used for every ancestor
linePrefixOwnFlag(parentPrefixes, isLastItem) ==
    [k \in 1..Len(parentPrefixes) |-> IF isLastItem THEN "    " ELSE "|   "]
    \o <<IF isLastItem THEN "+-- " ELSE "|-- ">>

\* the glyphs of a tree line ("|   ", "|-- " and "+-- " stand for the
\* box-drawing strings of the source)
linePrefix(parentPrefixes, isLastItem) ==
    [k \in 1..Len(parentPrefixes) |-> IF parentPrefixes[k] THEN "    " ELSE "|   "]
    \o <<IF isLastItem THEN "+-- " ELSE "|-- ">>

\* one line of the structure: prefix, name, and '/' or the size
treeLine(item, parentPrefixes, isLastItem) ==
    [prefix |-> linePrefix(parentPrefixes, isLastItem),
     name |-> item.name,
     path |-> item.path,
     isDirectory |-> item.isDirectory,
     sizeInfo |-> ~item.isDirectory /\ item.size < 1024 * 1024,
     size |-> item.size]

\* an activation of generateDirectoryStructure(dir, rootDir, depth, isLast,
\* parentPrefixes) about to call fs.readdir
walkFrame(dir, parentPrefixes) ==
    [dir |-> dir, state |-> "readdir", files |-> <<>>, validFiles |-> <<>>, i |-> 1,
     parentPrefixes |-> parentPrefixes, structure |-> <<>>]

(***************************************************************************)
(* generateOverview, up to the directory walk.                             *)
(***************************************************************************)
\* the catch block of generateOverview: console.error, then throw error
reject(err) ==
    /\ pc' = "rejected"
    /\ rejection' = err
    /\ console' = log(console, "error", "generateOverview failed", err.path)
    /\ runEnd' = Append(runEnd, stats)
    /\ runInfo' = [runInfo EXCEPT ![Len(runInfo)].processedFiles = processedFiles]

\* a call of generateOverview(): on the Scanner just constructed, or once
\* more on a Scanner whose earlier call has ended
generateOverview ==
    /\ pc \in {"constructed", "resolved", "rejected"}
    /\ runs < MaxRuns
    /\ runs' = runs + 1
    /\ pc' = "unlink"
    /\ rejection' = NoError
    /\ unlinkResult' = "none"
    /\ writeFailed' = FALSE
    /\ processedFiles' = <<>>
    /\ runInfo' = Append(runInfo, [fresh |-> pc = "constructed", processedFiles |-> <<>>])
    /\ visited' = <<>>
    /\ UNCHANGED <<envVars, outExists, out, stats, walk, directoryStructure, pfStack, cur,
                   console, exitCode, nonDirStatOk, statsAtEntry, runEnd>>

\* new Scanner(...): another Scanner object over the same directory
newScanner ==
    /\ pc \in {"resolved", "rejected"}
    /\ runs < MaxRuns
    /\ pc' = "constructed"
    /\ stats' = emptyStats
    /\ rejection' = NoError
    /\ unlinkResult' = "none"
    /\ nonDirStatOk' = 0
    /\ statsAtEntry' = emptyStats
    /\ writeFailed' = FALSE
    /\ UNCHANGED <<envVars, visited, outExists, out, runs, walk, directoryStructure, pfStack, cur,
                   processedFiles, console, exitCode, runEnd, runInfo>>

\* await fs.unlink(this.config.outputFile).catch(...)
unlinkOutput ==
    /\ pc = "unlink"
    /\ LET result == IF Fails("unlink", "start", rootDir) THEN "EACCES"
                     ELSE IF outExists THEN "ok" ELSE "ENOENT"
           swallowed == variant = "generic" \/ result \in {"ok", "ENOENT"}
       IN  /\ unlinkResult' = result
           /\ outExists' = IF result = "ok" THEN FALSE ELSE outExists
           /\ out' = IF result = "ok" THEN <<>> ELSE out
           /\ IF swallowed
              THEN /\ pc' = "writeHeader"
                   /\ UNCHANGED <<rejection, console, runEnd, runInfo>>
              ELSE reject([op |-> "unlink", at |-> "start", path |-> rootDir])
    /\ UNCHANGED <<envVars, visited, stats, runs, walk, directoryStructure, pfStack, cur,
                   processedFiles, exitCode, nonDirStatOk, statsAtEntry, writeFailed>>

\* await fs.writeFile(this.config.outputFile, initialContent), then the call
\* of generateDirectoryStructure(rootDir, rootDir)
writeHeader ==
    /\ pc = "writeHeader"
    /\ IF Fails("writeFile", "header", rootDir)
       THEN /\ reject([op |-> "writeFile", at |-> "header", path |-> rootDir])
            /\ writeFailed' = TRUE
            /\ UNCHANGED <<out, outExists, walk>>
       ELSE /\ out' = <<[kind |-> "header", path |-> rootDir, body |-> <<>>]>>
            /\ outExists' = TRUE
            /\ walk' = <<walkFrame(rootDir, <<>>)>>
            /\ pc' = "tree"
            /\ UNCHANGED <<rejection, console, runEnd, runInfo, writeFailed>>
    /\ UNCHANGED <<envVars, visited, stats, runs, directoryStructure, pfStack, cur, processedFiles,
                   exitCode, unlinkResult, nonDirStatOk, statsAtEntry>>

(***************************************************************************)
(* generateDirectoryStructure, one step per filesystem call.               *)
(***************************************************************************)
\* what the walk continues with once the activation on top has returned the
\* string structure: the caller appends it and goes on to its next item; the
\* outermost caller is generateOverview
walkReturnNoAdvance(structure) ==
    IF Len(walk) = 1
    THEN /\ walk' = <<>>
         /\ directoryStructure' = structure
         /\ pc' = "appendTree"
    ELSE /\ LET k == Len(walk) - 1
            IN  walk' = [SubSeq(walk, 1, k) EXCEPT ![k].structure = @ \o structure]
         /\ UNCHANGED <<directoryStructure, pc>>

walkReturn(structure) ==
    IF Len(walk) = 1
    THEN /\ walk' = <<>>
         /\ directoryStructure' = structure
         /\ pc' = "appendTree"
    ELSE /\ LET k == Len(walk) - 1
            IN  walk' = [SubSeq(walk, 1, k) EXCEPT
                            ![k].structure = @ \o structure,
                            ![k].i = @ + 1]
         /\ UNCHANGED <<directoryStructure, pc>>

\* const files = await fs.readdir(dir), and the catch of the function
gdsReaddir ==
    /\ pc = "tree"
    /\ walk[Len(walk)].state = "readdir"
    /\ LET top == walk[Len(walk)]
       IN  IF Fails("readdir", "tree", top.dir)
           THEN /\ stats' = pushError(stats, [kind |-> "readdir", path |-> top.dir])
                /\ walkReturn(<<>>)
           ELSE /\ walk' = [walk EXCEPT
                               ![Len(walk)].files = readdir(top.dir),
                               ![Len(walk)].state =
                                   IF readdir(top.dir) = <<>> THEN "render" ELSE "filter"]
                /\ UNCHANGED <<stats, directoryStructure, pc>>
    /\ UNCHANGED <<envVars, outExists, out, runs, rejection, pfStack, cur, processedFiles,
                   console, exitCode, unlinkResult, histVars>>

\* one turn of the loop over files: the reserved names and the ignored
\* entries are passed over, the others are stat-ed; after the last turn
\* validFiles is sorted
gdsFilterEntry ==
    /\ pc = "tree"
    /\ walk[Len(walk)].state = "filter"
    /\ LET top == walk[Len(walk)]
           file == Head(top.files)
           filePath == Append(top.dir, file)
           skipped == \/ isDocFile(variant, file)
                      \/ isIgnoredInTree(variant, config.ignoredPaths, filePath)
           statFails == ~skipped /\ Fails("stat", "tree", filePath)
           stat == Stat(filePath)
           validFiles ==
               IF skipped \/ statFails THEN top.validFiles
               ELSE Append(top.validFiles,
                           [name |-> file, path |-> filePath,
                            isDirectory |-> stat.isDirectory, size |-> stat.size])
           last == Len(top.files) = 1
       IN  /\ walk' = [walk EXCEPT
                          ![Len(walk)].files = Tail(top.files),
                          ![Len(walk)].validFiles =
                              IF last THEN sortItems(validFiles) ELSE validFiles,
                          ![Len(walk)].state = IF last THEN "render" ELSE "filter"]
           /\ console' = IF statFails THEN log(console, "warn", "cannot stat", filePath)
                         ELSE console
           /\ visited' = IF skipped THEN visited
                         ELSE Append(visited, [at |-> "tree", path |-> filePath])
    /\ UNCHANGED <<envVars, outExists, out, stats, pc, runs, rejection, directoryStructure,
                   pfStack, cur, processedFiles, exitCode, unlinkResult, nonDirStatOk,
                   statsAtEntry, writeFailed, runEnd, runInfo>>

\* a turn of the loop over validFiles that goes on to the next item without
\* awaiting the recursive call
gdsRenderItemNoAwait ==
    /\ pc = "tree"
    /\ walk[Len(walk)].state = "render"
    /\ walk[Len(walk)].i <= Len(walk[Len(walk)].validFiles)
    /\ LET top == walk[Len(walk)]
           item == top.validFiles[top.i]
           isLastItem == top.i = Len(top.validFiles)
           line == treeLine(item, top.parentPrefixes, isLastItem)
       IN  IF item.isDirectory
           THEN walk' = Append([walk EXCEPT ![Len(walk)].structure = Append(@, line),
                                            ![Len(walk)].i = @ + 1],
                               walkFrame(item.path, Append(top.parentPrefixes, isLastItem)))
           ELSE walk' = [walk EXCEPT ![Len(walk)].structure = Append(@, line),
                                     ![Len(walk)].i = @ + 1]
    /\ UNCHANGED <<envVars, outExists, out, stats, pc, runs, rejection, directoryStructure,
                   pfStack, cur, processedFiles, console, exitCode, unlinkResult, histVars>>

\* one turn of the loop over validFiles: the line of the item, and for a
\* directory the recursive call
gdsRenderItem ==
    /\ pc = "tree"
    /\ walk[Len(walk)].state = "render"
    /\ walk[Len(walk)].i <= Len(walk[Len(walk)].validFiles)
    /\ LET top == walk[Len(walk)]
           item == top.validFiles[top.i]
           isLastItem == top.i = Len(top.validFiles)
           line == treeLine(item, top.parentPrefixes, isLastItem)
       IN  IF item.isDirectory
           THEN walk' = Append([walk EXCEPT ![Len(walk)].structure = Append(@, line)],
                               walkFrame(item.path, Append(top.parentPrefixes, isLastItem)))
           ELSE walk' = [walk EXCEPT ![Len(walk)].structure = Append(@, line),
                                     ![Len(walk)].i = @ + 1]
    /\ UNCHANGED <<envVars, outExists, out, stats, pc, runs, rejection, directoryStructure,
                   pfStack, cur, processedFiles, console, exitCode, unlinkResult, histVars>>

\* return structure
gdsReturn ==
    /\ pc = "tree"
    /\ walk[Len(walk)].state = "render"
    /\ walk[Len(walk)].i > Len(walk[Len(walk)].validFiles)
    /\ walkReturn(walk[Len(walk)].structure)
    /\ UNCHANGED <<envVars, outExists, out, stats, runs, rejection, pfStack, cur,
                   processedFiles, console, exitCode, unlinkResult, histVars>>

(***************************************************************************)
(* generateOverview, from the directory structure to processFiles.         *)
(***************************************************************************)
\* an activation of processDirectory(currentDir) about to call fs.readdir
pfFrame(dir) == [dir |-> dir, state |-> "readdir", files |-> <<>>]

\* the first line of directoryStructure, `${this.#projectName}/`
rootLine ==
    [prefix |-> <<>>, name |-> projectName(variant), path |-> rootDir,
     isDirectory |-> TRUE, sizeInfo |-> FALSE, size |-> 0]

\* await fs.appendFile(outputFile, directoryStructure + heading), then the
\* call of processFiles(rootDir, rootDir, outputFile)
appendTree ==
    /\ pc = "appendTree"
    /\ IF Fails("appendFile", "tree", rootDir)
       THEN /\ reject([op |-> "appendFile", at |-> "tree", path |-> rootDir])
            /\ writeFailed' = TRUE
            /\ UNCHANGED <<out, pfStack, processedFiles>>
       ELSE /\ out' = out \o
                      <<[kind |-> "tree", path |-> rootDir,
                         body |-> <<rootLine>> \o directoryStructure],
                        [kind |-> "heading", path |-> rootDir, body |-> <<>>]>>
            /\ pfStack' = <<pfFrame(rootDir)>>
            /\ processedFiles' = <<>>
            /\ pc' = "files"
            /\ UNCHANGED <<rejection, console, runEnd, runInfo, writeFailed>>
    /\ UNCHANGED <<envVars, visited, outExists, stats, runs, walk, directoryStructure, cur, exitCode,
                   unlinkResult, nonDirStatOk, statsAtEntry>>

(***************************************************************************)
(* processFiles, one step per filesystem call.                             *)
(***************************************************************************)
\* generateOverview going straight to the summary
afterProcessFilesNoToc == "appendSummary"

\* where generateOverview goes on once processFiles has returned: the
\* JavaWeb scanner appends a table of contents when there is one
afterProcessFiles ==
    IF variant = "javaweb" /\ config.includeTOC /\ Len(processedFiles) > 0
    THEN "appendToc" ELSE "appendSummary"

\* what processFiles continues with once the activation on top has returned
pfReturn ==
    /\ pfStack' = SubSeq(pfStack, 1, Len(pfStack) - 1)
    /\ pc' = IF Len(pfStack) = 1 THEN afterProcessFiles ELSE "files"

\* the catch blocks of processDirectory: stats.errors.push, and in the
\* JavaWeb scanner #log(..., 'error')
pfCatch(kind, path) ==
    /\ stats' = pushError(stats, [kind |-> kind, path |-> path])
    /\ console' = IF variant = "javaweb" THEN log(console, "error", kind, path)
                  ELSE console

\* const files = await fs.readdir(currentDir), and the outer catch
pfReaddir ==
    /\ pc = "files"
    /\ pfStack[Len(pfStack)].state = "readdir"
    /\ LET top == pfStack[Len(pfStack)]
       IN  IF Fails("readdir", "files", top.dir)
           THEN /\ pfCatch("readdir", top.dir)
                /\ pfReturn
           ELSE /\ pfStack' = [pfStack EXCEPT ![Len(pfStack)].files = readdir(top.dir),
                                              ![Len(pfStack)].state = "loop"]
                /\ UNCHANGED <<stats, console, pc>>
    /\ UNCHANGED <<envVars, outExists, out, runs, rejection, walk, directoryStructure, cur,
                   processedFiles, exitCode, unlinkResult, histVars>>

\* the end of the loop over files: processDirectory returns
pfLoopEnd ==
    /\ pc = "files"
    /\ pfStack[Len(pfStack)].state = "loop"
    /\ pfStack[Len(pfStack)].files = <<>>
    /\ pfReturn
    /\ UNCHANGED <<envVars, outExists, out, stats, runs, rejection, walk,
                   directoryStructure, cur, processedFiles, console, exitCode,
                   unlinkResult, histVars>>

\* one turn of the loop over files: const stat = await fs.stat(filePath), the
\* reserved names, and the recursive call for a directory
pfStat ==
    /\ pc = "files"
    /\ pfStack[Len(pfStack)].state = "loop"
    /\ pfStack[Len(pfStack)].files # <<>>
    /\ LET top == pfStack[Len(pfStack)]
           file == Head(top.files)
           filePath == Append(top.dir, file)
           rest == [pfStack EXCEPT ![Len(pfStack)].files = Tail(top.files)]
           stat == Stat(filePath)
       IN  /\ statsAtEntry' = stats
           /\ visited' = Append(visited, [at |-> "files", path |-> filePath])
           /\ IF Fails("stat", "files", filePath)
              THEN /\ pfCatch("processing", filePath)
                   /\ pfStack' = rest
                   /\ UNCHANGED <<pc, cur, nonDirStatOk>>
              ELSE /\ nonDirStatOk' = IF stat.isDirectory THEN nonDirStatOk
                                      ELSE nonDirStatOk + 1
                   /\ UNCHANGED <<stats, console>>
                   /\ IF isDocFile(variant, file)
                      THEN /\ pfStack' = rest
                           /\ UNCHANGED <<pc, cur>>
                      ELSE IF stat.isDirectory
                      THEN /\ pfStack' = Append(rest, pfFrame(filePath))
                           /\ UNCHANGED <<pc, cur>>
                      ELSE /\ pfStack' = rest
                           /\ cur' = [path |-> filePath, size |-> stat.size,
                                      content |-> <<>>, hash |-> NullHash]
                           /\ pc' = "shouldProcess"
    /\ UNCHANGED <<envVars, outExists, out, runs, rejection, walk, directoryStructure,
                   processedFiles, exitCode, unlinkResult, writeFailed, runEnd, runInfo>>

\* if (await this.shouldProcessContent(filePath, rootDir)) ... else
\* this.stats.skippedFiles++
pfShouldProcess ==
    /\ pc = "shouldProcess"
    /\ LET answer == shouldProcessContent(cur.path, ~Fails("stat2", "files", cur.path),
                                          Stat(cur.path).size)
           warned == IF answer.warning
                     THEN pushWarning(stats, [kind |-> "too large", path |-> cur.path])
                     ELSE stats
       IN  IF answer.value
           THEN /\ stats' = warned
                /\ pc' = "readFile"
           ELSE /\ stats' = [warned EXCEPT !.skippedFiles = @ + 1]
                /\ pc' = "files"
    /\ UNCHANGED <<envVars, outExists, out, runs, rejection, walk, directoryStructure,
                   pfStack, cur, processedFiles, console, exitCode, unlinkResult, histVars>>

\* String.prototype.split with a one-character separator: the segments
\* between the separators, one more than there are separators
RECURSIVE split(_, _)
split(s, sep) ==
    IF \A i \in 1..Len(s) : s[i] # sep THEN <<s>>
    ELSE LET first == CHOOSE i \in 1..Len(s) :
                          s[i] = sep /\ \A j \in 1..(i - 1) : s[j] # sep
         IN  <<SubSeq(s, 1, first - 1)>> \o split(SubSeq(s, first + 1, Len(s)), sep)

\* #countLines(content): content.split('\n').length
countLines(content) == Len(split(content, "\n"))

\* a digest that also depends on the run it is computed in
md5PerRun(fileBuffer) == <<"md5", runs>> \o fileBuffer

\* crypto.createHash('md5').update(fileBuffer).digest('hex'): a value that
\* depends on the bytes of the file and on nothing else
md5(fileBuffer) == <<"md5">> \o fileBuffer

\* const lines = ...: the generic scanner always counts, the JavaWeb scanner
\* when includeLineCount is set
linesOf(c) ==
    IF variant = "generic" \/ config.includeLineCount THEN countLines(c.content) ELSE 0

\* extension.slice(1).toUpperCase() || 'NONE'
fileTypeOf(path) ==
    LET extension == toLowerCase(extname(basename(path)))
        label == toUpperCase(slice(extension, 1))
    IN  IF label = <<>> THEN S_NONE ELSE label

\* this.stats.fileTypes.set(fileType, (this.stats.fileTypes.get(fileType) || 0) + 1),
\* the Map being the sequence of its entries in insertion order
countFileType(fileTypes, fileType) ==
    IF \E k \in 1..Len(fileTypes) : fileTypes[k].type = fileType
    THEN [k \in 1..Len(fileTypes) |->
             IF fileTypes[k].type = fileType
             THEN [fileTypes[k] EXCEPT !.count = @ + 1] ELSE fileTypes[k]]
    ELSE Append(fileTypes, [type |-> fileType, count |-> 1])

RECURSIVE insertBySize(_, _)
insertBySize(x, s) ==
    IF Len(s) = 0 THEN <<x>>
    ELSE IF s[1].size - x.size <= 0 THEN <<x>> \o s
    ELSE <<s[1]>> \o insertBySize(x, Tail(s))

\* largestFiles.sort((a, b) => b.size - a.size), a stable sort
RECURSIVE sortBySize(_)
sortBySize(s) ==
    IF Len(s) = 0 THEN <<>> ELSE insertBySize(s[1], sortBySize(Tail(s)))

\* the length largestFiles is cut to
largestFilesLimit == 10

\* largestFiles.push(...), .sort(...), .slice(0, 10)
trackLargest(largestFiles, entry) ==
    LET sorted == sortBySize(Append(largestFiles, entry))
    IN  SubSeq(sorted, 1, IF Len(sorted) < largestFilesLimit THEN Len(sorted)
                          ELSE largestFilesLimit)

\* the statistics update of processFiles, which precedes the append of the
\* file's section
updateStats(s, c) ==
    [s EXCEPT !.totalSize = @ + c.size,
              !.totalLines = @ + linesOf(c),
              !.fileTypes = countFileType(@, fileTypeOf(c.path)),
              !.largestFiles = trackLargest(@, [path |-> relative(c.path), size |-> c.size])]

\* const fileContent = await fs.readFile(filePath, encoding); with
\* includeHashes off #calculateFileHash returns null at once and the
\* statistics are updated in the same turn
pfReadFile ==
    /\ pc = "readFile"
    /\ IF Fails("readFile", "files", cur.path)
       THEN /\ pfCatch("processing", cur.path)
            /\ pc' = "files"
            /\ UNCHANGED cur
       ELSE IF config.includeHashes
       THEN /\ cur' = [cur EXCEPT !.content = Stat(cur.path).content]
            /\ pc' = "hash"
            /\ UNCHANGED <<stats, console>>
       ELSE /\ cur' = [cur EXCEPT !.content = Stat(cur.path).content, !.hash = NullHash]
            /\ stats' = updateStats(stats, cur')
            /\ pc' = "appendSection"
            /\ UNCHANGED console
    /\ UNCHANGED <<envVars, outExists, out, runs, rejection, walk, directoryStructure,
                   pfStack, processedFiles, exitCode, unlinkResult, histVars>>

\* const hash = await this.#calculateFileHash(filePath): its fs.readFile, its
\* own catch, and the statistics update that follows
pfHash ==
    /\ pc = "hash"
    /\ LET failed == Fails("hash", "files", cur.path)
           warned == IF failed
                     THEN pushWarning(stats, [kind |-> "hash failed", path |-> cur.path])
                     ELSE stats
       IN  /\ cur' = [cur EXCEPT !.hash = IF failed THEN NullHash
                                           ELSE md5(Stat(cur.path).content)]
           /\ stats' = updateStats(warned, cur)
    /\ pc' = "appendSection"
    /\ UNCHANGED <<envVars, outExists, out, runs, rejection, walk, directoryStructure,
                   pfStack, processedFiles, console, exitCode, unlinkResult, histVars>>

\* await fs.appendFile(outputFile, separator + fileContent), then
\* processedFiles.push(...) and this.stats.filesProcessed++; a failure is
\* caught by the catch of the loop body
pfAppendSection ==
    /\ pc = "appendSection"
    /\ LET section == [fileType |-> fileTypeOf(cur.path), size |-> cur.size,
                       lines |-> linesOf(cur), hash |-> cur.hash]
       IN  IF Fails("appendFile", "files", cur.path)
           THEN /\ pfCatch("processing", cur.path)
                /\ writeFailed' = TRUE
                /\ UNCHANGED <<out, processedFiles>>
           ELSE /\ out' = Append(out, [kind |-> "file", path |-> cur.path, body |-> section])
                /\ processedFiles' = Append(processedFiles,
                                            [path |-> cur.path, body |-> section])
                /\ stats' = [stats EXCEPT !.filesProcessed = @ + 1]
                /\ UNCHANGED <<console, writeFailed>>
    /\ pc' = "files"
    /\ UNCHANGED <<envVars, visited, outExists, runs, rejection, walk, directoryStructure, pfStack,
                   cur, exitCode, unlinkResult, nonDirStatOk, statsAtEntry, runEnd,
                   runInfo>>

(***************************************************************************)
(* generateOverview, after processFiles; main.                             *)
(***************************************************************************)
\* if (toc) await fs.appendFile(outputFile, toc)   (JavaWeb scanner)
appendToc ==
    /\ pc = "appendToc"
    /\ IF Fails("appendFile", "toc", rootDir)
       THEN /\ reject([op |-> "appendFile", at |-> "toc", path |-> rootDir])
            /\ writeFailed' = TRUE
            /\ UNCHANGED out
       ELSE /\ out' = Append(out, [kind |-> "toc", path |-> rootDir, body |-> processedFiles])
            /\ pc' = "appendSummary"
            /\ UNCHANGED <<rejection, console, runEnd, runInfo, writeFailed>>
    /\ UNCHANGED <<envVars, visited, outExists, stats, runs, walk, directoryStructure, pfStack, cur,
                   processedFiles, exitCode, unlinkResult, nonDirStatOk, statsAtEntry>>

\* the console.error lines of the end of the JavaWeb generateOverview
RECURSIVE logAll(_, _, _)
logAll(c, level, messages) ==
    IF Len(messages) = 0 THEN c
    ELSE logAll(log(c, level, messages[1].kind, messages[1].path), level, Tail(messages))

\* const summaryReport = this.generateSummaryReport(); await
\* fs.appendFile(outputFile, summaryReport); the messages that follow
appendSummary ==
    /\ pc = "appendSummary"
    /\ IF Fails("appendFile", "summary", rootDir)
       THEN /\ reject([op |-> "appendFile", at |-> "summary", path |-> rootDir])
            /\ writeFailed' = TRUE
            /\ UNCHANGED out
       ELSE /\ out' = Append(out, [kind |-> "summary", path |-> rootDir, body |-> stats])
            /\ pc' = "resolved"
            /\ console' = IF variant = "javaweb"
                          THEN logAll(logAll(console, "error", stats.errors),
                                      "warn", stats.warnings)
                          ELSE console
            /\ runEnd' = Append(runEnd, stats)
            /\ runInfo' = [runInfo EXCEPT ![Len(runInfo)].processedFiles = processedFiles]
            /\ UNCHANGED <<rejection, writeFailed>>
    /\ UNCHANGED <<envVars, visited, outExists, stats, runs, walk, directoryStructure, pfStack, cur,
                   processedFiles, exitCode, unlinkResult, nonDirStatOk, statsAtEntry>>

\* main(), run as a script: the one call of generateOverview has ended.  A
\* rejection is handled by .catch (console.error) in both scanners, so the
\* process ends with no uncaught error and no exit code set: status 0
mainExit ==
    /\ pc \in {"resolved", "rejected"}
    /\ runs = 1
    /\ pc' = "exited"
    /\ console' = IF pc = "rejected" THEN log(console, "error", "main catch", rejection.path)
                  ELSE console
    /\ exitCode' = 0
    /\ UNCHANGED <<envVars, outExists, out, stats, runs, rejection, walk,
                   directoryStructure, pfStack, cur, processedFiles, unlinkResult, histVars>>

Next ==
    \/ generateOverview
    \/ newScanner
    \/ unlinkOutput
    \/ writeHeader
    \/ gdsReaddir
    \/ gdsFilterEntry
    \/ gdsRenderItem
    \/ gdsReturn
    \/ appendTree
    \/ pfReaddir
    \/ pfLoopEnd
    \/ pfStat
    \/ pfShouldProcess
    \/ pfReadFile
    \/ pfHash
    \/ pfAppendSection
    \/ appendToc
    \/ appendSummary
    \/ mainExit

Spec == Init /\ [][Next]_vars

(***************************************************************************)
(* Direct calls of shouldProcessContent, a public method, on a Scanner     *)
(* just constructed: the file paths, the sizes fs.stat reports, and the    *)
(* configurations the calls are made with.                                 *)
(***************************************************************************)
CallPaths ==
    { <<N_a_js>>, <<N_A_JS>>, <<N_a_txt>>, <<N_dot_x_js>>,
      <<N_build, N_x_js>>, <<N_builder, N_x_js>>, <<N_src, N_rebuild_js>>,
      <<N_src, N_build, N_x_js>>, <<N_src, N_build>>, <<N_src, N_c_js>>,
      <<N_lib, N_src, N_c_js>>, <<N_generate_overview>>, <<N_ia_scanner>>,
      <<N_src, N_JavaWeb_txt>>, <<N_src, <<"_", "q", "r", "y">> \o S_Overview_txt>> }

CallSizes == {9, 10, 11}

CallConfigs(v) ==
    { [defaultConfig(v) EXCEPT !.ignoredPaths = ip, !.acceptedExtensions = ae,
                               !.maxFileSize = 10] :
        ip \in { defaultIgnoredPaths(v), <<>>, <<N_build>>, <<N_c_js>>, <<P_src_c_js>>,
                 <<N_build, P_src_c_js>>, <<P_sr_star>> },
        ae \in { defaultAcceptedExtensions,
                 << <<".", "j", "s">>, <<".", "t", "x", "t">>, <<".", "c", "j", "s">> >> } }

InitCalls ==
    /\ variant \in Variants
    /\ config \in CallConfigs(variant)
    /\ tree = {}
    /\ Constructed
    /\ faults = {}
    /\ ~outExists

\* scanner.shouldProcessContent(filePath, rootDir), with what its fs.stat gives
callShouldProcessContent ==
    /\ pc = "constructed"
    /\ Len(stats.warnings) < MaxWarnings
    /\ \E filePath \in CallPaths, statOk \in BOOLEAN, size \in CallSizes :
           LET answer == shouldProcessContent(filePath, statOk, size)
           IN  /\ call' = [fn |-> "shouldProcessContent", path |-> filePath,
                           statOk |-> statOk, size |-> size, value |-> answer.value]
               /\ stats' = IF answer.warning
                           THEN pushWarning(stats, [kind |-> "too large", path |-> filePath])
                           ELSE stats
    /\ UNCHANGED <<variant, config, tree, listing, faults, outExists, out, pc, runs,
                   rejection, walk, directoryStructure, pfStack, cur, processedFiles,
                   console, exitCode, unlinkResult, histVars, pageVars>>

SpecCalls == InitCalls /\ [][callShouldProcessContent]_vars

\* the one call of generateOverview() on a Scanner just constructed
firstRun == pc = "constructed" /\ generateOverview

NextFirstRun ==
    \/ firstRun
    \/ unlinkOutput
    \/ writeHeader
    \/ gdsReaddir
    \/ gdsFilterEntry
    \/ gdsRenderItem
    \/ gdsReturn
    \/ appendTree
    \/ pfReaddir
    \/ pfLoopEnd
    \/ pfStat
    \/ pfShouldProcess
    \/ pfReadFile
    \/ pfHash
    \/ pfAppendSection
    \/ appendToc
    \/ appendSummary
    \/ mainExit

\* the first run of the scanners over the further trees and configurations
SpecScenarios == InitScenarios /\ [][NextFirstRun]_vars

\* the calls that fail in the runs followed to their end: those on rootDir,
\* on the report file, on src and on src/a.js
TerminationSites(t, o) ==
    {f \in FaultSites(t, o) : f.path \in {rootDir, <<o>>, <<N_src>>, <<N_src, N_a_js>>}}

\* new Scanner(...) over TreeB, with the default ignoredPaths or with none,
\* fs.readdir listing each directory in one of its orders
InitTermination ==
    /\ variant \in Variants
    /\ tree = TreeB
    /\ config \in {defaultConfig(variant), [defaultConfig(variant) EXCEPT !.ignoredPaths = <<>>]}
    /\ listing = CHOOSE l \in Listings(tree, config.outputFile) : TRUE
    /\ faults \in FaultSets(TerminationSites(tree, config.outputFile), MaxFaults)
    /\ Constructed
    /\ ~outExists

\* the first run when every filesystem operation returns: each call the run
\* awaits settles, so the step that follows it is taken
SpecTermination == InitTermination /\ [][NextFirstRun]_vars /\ WF_vars(NextFirstRun)

\* a customConfig.outputFile: a file of rootDir with an accepted extension
N_report_md == <<"r", "e", "p", "o", "r", "t", ".", "m", "d">>

\* new Scanner(folderName, customConfig) with the default outputFile or with
\* { outputFile: path.join(rootDir, 'report.md') }
InitReport ==
    /\ variant \in Variants
    /\ tree = TreeC
    /\ config \in {defaultConfig(variant),
                   [defaultConfig(variant) EXCEPT !.outputFile = N_report_md]}
    /\ Constructed

\* the first run of such a scanner
SpecReport == InitReport /\ [][NextFirstRun]_vars

(***************************************************************************)
(* formatFileSize.  A byte count is g*1024^3 + m*1024^2 + k*1024 + b, kept *)
(* as its base-1024 digits, lowest first, the top digit g being unbounded. *)
(* A double holds every such count below 2^53 exactly, and `size /= 1024`  *)
(* is exact on it: the division only moves the point one digit up.         *)
(***************************************************************************)
number(g, m, k, b) == [digits |-> <<b, k, m, g>>, point |-> 0]

units == <<<<"B">>, <<"K", "B">>, <<"M", "B">>, <<"G", "B">>>>

\* size >= 1024
atLeast1024(size) ==
    \/ \E i \in (size.point + 2)..Len(size.digits) : size.digits[i] > 0
    \/ /\ size.point + 1 <= Len(size.digits)
       /\ size.digits[size.point + 1] >= 1024

\* size /= 1024
divideBy1024(size) == [size EXCEPT !.point = @ + 1]

\* the part of size before the point
RECURSIVE integerPart(_, _)
integerPart(size, i) ==
    IF i > Len(size.digits) THEN 0
    ELSE size.digits[i] + 1024 * integerPart(size, i + 1)

\* 100 times the part of size after the point: carry is its integer part,
\* top the first base-1024 digit of what remains
RECURSIVE hundredths(_, _, _)
hundredths(size, i, acc) ==
    IF i > size.point THEN acc
    ELSE LET t == size.digits[i] * 100 + acc.carry
         IN  hundredths(size, i + 1, [carry |-> t \div 1024, top |-> t % 1024])

DigitChars == <<"0", "1", "2", "3", "4", "5", "6", "7", "8", "9">>

\* the decimal digits of a natural number
RECURSIVE decimal(_)
decimal(n) ==
    IF n < 10 THEN <<DigitChars[n + 1]>>
    ELSE decimal(n \div 10) \o <<DigitChars[(n % 10) + 1]>>

\* a toFixed(2) that cuts the decimals after the second instead of rounding
toFixedTruncated(size) ==
    LET h == hundredths(size, 1, [carry |-> 0, top |-> 0])
        n == 100 * integerPart(size, size.point + 1) + h.carry
    IN  decimal(n \div 100) \o <<".">>
            \o <<DigitChars[((n % 100) \div 10) + 1], DigitChars[(n % 10) + 1]>>

\* size.toFixed(2): the integer n with n / 100 nearest to size, the larger
\* one when two are as near, printed with two decimals
toFixed2(size) ==
    LET h == hundredths(size, 1, [carry |-> 0, top |-> 0])
        n == 100 * integerPart(size, size.point + 1) + h.carry
                 + (IF h.top >= 512 THEN 1 ELSE 0)
    IN  decimal(n \div 100) \o <<".">>
            \o <<DigitChars[((n % 100) \div 10) + 1], DigitChars[(n % 10) + 1]>>

\* the loop of formatFileSize and its return
RECURSIVE formatLoop(_, _)
formatLoop(size, unitIndex) ==
    IF atLeast1024(size) /\ unitIndex < Len(units) - 1
    THEN formatLoop(divideBy1024(size), unitIndex + 1)
    ELSE toFixed2(size) \o <<" ">> \o units[unitIndex + 1]

formatFileSize(bytes) == formatLoop(bytes, 0)

\* the byte counts formatFileSize is called with
ByteCounts ==
    { number(g, m, k, b) : g \in {0, 1, 2, 1023, 1024, 1025},
                           m \in {0, 1, 512, 1023},
                           k \in {0, 1, 5, 512, 1023},
                           b \in {0, 1, 128, 476, 1023} }

callFormatFileSize ==
    /\ pc = "constructed"
    /\ \E bytes \in ByteCounts :
           call' = [fn |-> "formatFileSize", bytes |-> bytes,
                    value |-> formatFileSize(bytes)]
    /\ UNCHANGED <<variant, config, tree, listing, faults>>
    /\ UNCHANGED <<pc, runs, stats, processedFiles, out, outExists, console,
                   directoryStructure, walk, pfStack, cur, unlinkResult,
                   rejection, exitCode>>
    /\ UNCHANGED <<histVars, pageVars>>

\* a Scanner just constructed with the default configuration
InitFormat ==
    /\ variant \in Variants
    /\ config = defaultConfig(variant)
    /\ tree = {}
    /\ Constructed
    /\ faults = {}
    /\ ~outExists

SpecFormat == InitFormat /\ [][callFormatFileSize]_vars

(***************************************************************************)
(* Qry.js, the first class of the file.  The document is a fixed tree of   *)
(* HTML elements, numbered in document order; 0 stands for null.           *)
(*   html > body > ( ul#list > ( li.item > span, li.item ),                *)
(*                   div.card > button#btn )                               *)
(***************************************************************************)
E_html == <<"h", "t", "m", "l">>
E_body == <<"b", "o", "d", "y">>
E_ul == <<"u", "l">>
E_li == <<"l", "i">>
E_span == <<"s", "p", "a", "n">>
E_div == <<"d", "i", "v">>
E_button == <<"b", "u", "t", "t", "o", "n">>
E_table == <<"t", "a", "b", "l", "e">>
A_list == <<"l", "i", "s", "t">>
A_btn == <<"b", "t", "n">>
A_item == <<"i", "t", "e", "m">>
A_card == <<"c", "a", "r", "d">>
A_missing == <<"m", "i", "s", "s", "i", "n", "g">>

Document ==
    << [tag |-> E_html, id |-> <<>>, classes |-> {}, parent |-> 0],
       [tag |-> E_body, id |-> <<>>, classes |-> {}, parent |-> 1],
       [tag |-> E_ul, id |-> A_list, classes |-> {}, parent |-> 2],
       [tag |-> E_li, id |-> <<>>, classes |-> {A_item}, parent |-> 3],
       [tag |-> E_span, id |-> <<>>, classes |-> {}, parent |-> 4],
       [tag |-> E_li, id |-> <<>>, classes |-> {A_item}, parent |-> 3],
       [tag |-> E_div, id |-> <<>>, classes |-> {A_card}, parent |-> 2],
       [tag |-> E_button, id |-> A_btn, classes |-> {}, parent |-> 7] >>

Elements == 1..Len(Document)

\* document.documentElement
documentElement == 1

\* el.parentElement
parentElement(el) == Document[el].parent

\* el.nextElementSibling and el.previousElementSibling
nextElementSibling(el) ==
    LET later == {e \in Elements : e > el /\ parentElement(e) = parentElement(el)}
    IN  IF later = {} THEN 0 ELSE CHOOSE e \in later : \A f \in later : e <= f

previousElementSibling(el) ==
    LET earlier == {e \in Elements : e < el /\ parentElement(e) = parentElement(el)}
    IN  IF earlier = {} THEN 0 ELSE CHOOSE e \in earlier : \A f \in earlier : e >= f

\* el.matches(selector) for the selectors of the model: '#id', '.class', 'tag'
matches(el, selector) ==
    IF startsWith(selector, <<"#">>) THEN Document[el].id = slice(selector, 1)
    ELSE IF startsWith(selector, <<".">>) THEN slice(selector, 1) \in Document[el].classes
    ELSE Document[el].tag = selector

\* el.closest(selector): the nearest of el and its ancestors that matches
RECURSIVE elementClosest(_, _)
elementClosest(el, selector) ==
    IF el = 0 THEN 0
    ELSE IF matches(el, selector) THEN el
    ELSE elementClosest(parentElement(el), selector)

\* the elements of a set, in document order
RECURSIVE inDocumentOrder(_)
inDocumentOrder(S) ==
    IF S = {} THEN <<>>
    ELSE LET e == CHOOSE x \in S : \A y \in S : x <= y
         IN  <<e>> \o inDocumentOrder(S \ {e})

\* doc.querySelectorAll, doc.querySelector and doc.getElementById
querySelectorAll(selector) ==
    inDocumentOrder({e \in Elements : matches(e, selector)})

querySelector(selector) ==
    IF querySelectorAll(selector) = <<>> THEN 0 ELSE querySelectorAll(selector)[1]

getElementById(id) == querySelector(<<"#">> \o id)

\* the values a Qry is constructed from: null, an element, an array of
\* elements, a selector string
nullSelector == [kind |-> "null"]
ofElement(el) == [kind |-> "element", el |-> el]
ofArray(els) == [kind |-> "array", els |-> els]
ofString(text) == [kind |-> "string", text |-> text]

\* `x || null` for an element or null x
orNull(el) == IF el = 0 THEN nullSelector ELSE ofElement(el)

wrapOne(el) == [element |-> el, elements |-> <<>>, isCollection |-> FALSE]

\* what the constructor does with a list of elements
wrapList(els) ==
    IF Len(els) = 1 THEN wrapOne(els[1])
    ELSE IF Len(els) > 1 THEN [element |-> 0, elements |-> els, isCollection |-> TRUE]
    ELSE NoQry

\* new Qry(selector, doc)
QryNew(selector) ==
    IF \/ selector.kind = "null"
       \/ selector.kind = "string" /\ selector.text = <<>>
       \/ selector.kind = "element" /\ selector.el = documentElement
    THEN wrapOne(documentElement)
    ELSE CASE selector.kind = "element" -> wrapOne(selector.el)
           [] selector.kind = "array" -> wrapList(selector.els)
           [] selector.kind = "string" ->
                  IF /\ startsWith(selector.text, <<"#">>)
                     /\ ~includes(selector.text, <<" ">>)
                     /\ ~includes(selector.text, <<",">>)
                  THEN wrapOne(getElementById(slice(selector.text, 1)))
                  ELSE IF \/ includes(selector.text, <<",">>)
                          \/ includes(selector.text, <<" ">>)
                          \/ includes(selector.text, <<".">>)
                          \/ includes(selector.text, <<"[">>)
                  THEN wrapList(querySelectorAll(selector.text))
                  ELSE wrapOne(querySelector(selector.text))

\* the getters el, els, exists and length
el(q) == IF q.isCollection THEN q.elements[1] ELSE q.element
els(q) ==
    IF q.isCollection THEN q.elements
    ELSE IF q.element # 0 THEN <<q.element>> ELSE <<>>
exists(q) == IF q.isCollection THEN Len(q.elements) > 0 ELSE q.element # 0
length(q) == IF q.isCollection THEN Len(q.elements) ELSE IF q.element # 0 THEN 1 ELSE 0

\* first(), last(), eq(index), parent(), closest(selector), next(), prev()
first(q) == QryNew(orNull(IF q.isCollection THEN q.elements[1] ELSE q.element))

last(q) ==
    QryNew(orNull(IF q.isCollection THEN q.elements[Len(q.elements)] ELSE q.element))

eq(q, index) ==
    LET i == IF index < 0 THEN Len(els(q)) + index ELSE index
    IN  QryNew(orNull(IF i + 1 \in 1..Len(els(q)) THEN els(q)[i + 1] ELSE 0))

parent(q) == QryNew(orNull(IF exists(q) THEN parentElement(el(q)) ELSE 0))

closest(q, selector) ==
    IF ~exists(q) THEN QryNew(nullSelector)
    ELSE QryNew(orNull(elementClosest(el(q), selector)))

next(q) == QryNew(orNull(IF exists(q) THEN nextElementSibling(el(q)) ELSE 0))

prev(q) == QryNew(orNull(IF exists(q) THEN previousElementSibling(el(q)) ELSE 0))

\* the values $(...) is called with, and the arguments of closest and eq
Selectors ==
    {nullSelector}
        \cup {ofElement(e) : e \in Elements}
        \cup {ofArray(<<>>), ofArray(<<4>>), ofArray(<<4, 6>>)}
        \cup {ofString(t) : t \in {<<"#">> \o A_list, <<"#">> \o A_missing,
                                  <<".">> \o A_item, <<".">> \o A_missing,
                                  E_li, E_span, E_table}}

ClosestSelectors ==
    {<<".">> \o A_item, <<".">> \o A_card, <<"#">> \o A_list, E_ul, E_html,
     <<".">> \o A_missing}

Indexes == (0 - 3)..2

\* $(selector)
qryNew ==
    /\ \E selector \in Selectors : qry' = QryNew(selector)
    /\ qcall' = NoQryCall
    /\ UNCHANGED <<scannerVars, uiVars, listeners, events, invocations>>

\* a call of a traversal method on the object at hand
traversal(method, arg, value) ==
    [method |-> method, receiver |-> qry, arg |-> arg, value |-> value]

\* the traversal methods; the object returned becomes the object at hand, as
\* in a chain of calls
qryFirst ==
    /\ qcall' = traversal("first", <<>>, first(qry))
    /\ qry' = first(qry)
    /\ UNCHANGED <<scannerVars, uiVars, listeners, events, invocations>>

qryLast ==
    /\ qcall' = traversal("last", <<>>, last(qry))
    /\ qry' = last(qry)
    /\ UNCHANGED <<scannerVars, uiVars, listeners, events, invocations>>

qryEq ==
    /\ \E index \in Indexes :
           /\ qcall' = traversal("eq", index, eq(qry, index))
           /\ qry' = eq(qry, index)
    /\ UNCHANGED <<scannerVars, uiVars, listeners, events, invocations>>

qryParent ==
    /\ qcall' = traversal("parent", <<>>, parent(qry))
    /\ qry' = parent(qry)
    /\ UNCHANGED <<scannerVars, uiVars, listeners, events, invocations>>

qryClosest ==
    /\ \E selector \in ClosestSelectors :
           /\ qcall' = traversal("closest", selector, closest(qry, selector))
           /\ qry' = closest(qry, selector)
    /\ UNCHANGED <<scannerVars, uiVars, listeners, events, invocations>>

qryNext ==
    /\ qcall' = traversal("next", <<>>, next(qry))
    /\ qry' = next(qry)
    /\ UNCHANGED <<scannerVars, uiVars, listeners, events, invocations>>

qryPrev ==
    /\ qcall' = traversal("prev", <<>>, prev(qry))
    /\ qry' = prev(qry)
    /\ UNCHANGED <<scannerVars, uiVars, listeners, events, invocations>>

\* the page loaded and no script run yet; the scanner plays no part
InitPage ==
    /\ variant = "generic"
    /\ config = defaultConfig(variant)
    /\ tree = {}
    /\ Constructed
    /\ faults = {}
    /\ ~outExists

NextQry ==
    \/ qryNew
    \/ qryFirst
    \/ qryLast
    \/ qryEq
    \/ qryParent
    \/ qryClosest
    \/ qryNext
    \/ qryPrev

SpecQry == InitPage /\ [][NextQry]_vars

(***************************************************************************)
(* Qry.delegate and the dispatch of an event.  A listener is the function  *)
(* delegate passes to addEventListener, with the selector it closes over;  *)
(* the handler of the n-th listener is handler n.                          *)
(***************************************************************************)
EventTypes == {"click", "focus"}

\* whether an event of the type bubbles
bubbles(type) == type = "click"

DelegateSelectors == {<<".">> \o A_item, E_button, <<".">> \o A_missing}

\* the elements an event at target reaches, in the order it reaches them
RECURSIVE propagationPath(_)
propagationPath(target) ==
    IF target = 0 THEN <<>>
    ELSE <<target>> \o propagationPath(parentElement(target))

\* delegate(selector, event, handler): on(event, function(e) ...) adds one
\* listener to each element of the object
RECURSIVE addListeners(_, _, _, _)
addListeners(ls, elements, selector, event) ==
    IF Len(elements) = 0 THEN ls
    ELSE addListeners(Append(ls, [el |-> elements[1], event |-> event, selector |-> selector]),
                      Tail(elements), selector, event)

qryDelegate ==
    /\ Len(listeners) < MaxDelegates
    /\ \E selector \in DelegateSelectors, event \in EventTypes :
           listeners' = addListeners(listeners, els(qry), selector, event)
    /\ UNCHANGED <<scannerVars, uiVars, qry, qcall, events, invocations>>

\* the body of the listener: the handler is called with the closest match
\* of e.target as `this` when that Qry exists
listenerCalls(n, e, k) ==
    LET target == closest(QryNew(ofElement(e.target)), listeners[n].selector)
    IN  IF exists(target)
        THEN <<[handler |-> n, this |-> el(target), event |-> k]>>
        ELSE <<>>

\* the listeners of one element run in the order they were added
RECURSIVE callsAt(_, _, _, _)
callsAt(node, n, e, k) ==
    IF n > Len(listeners) THEN <<>>
    ELSE (IF listeners[n].el = node /\ listeners[n].event = e.type
          THEN listenerCalls(n, e, k) ELSE <<>>)
             \o callsAt(node, n + 1, e, k)

RECURSIVE callsAlong(_, _, _)
callsAlong(path, e, k) ==
    IF Len(path) = 0 THEN <<>>
    ELSE callsAt(path[1], 1, e, k) \o callsAlong(Tail(path), e, k)

\* target.dispatchEvent(new Event(type, {bubbles}))
dispatchEvent ==
    /\ Len(events) < MaxDispatches
    /\ \E target \in Elements, type \in EventTypes :
           LET e == [type |-> type, target |-> target]
               path == IF bubbles(type) THEN propagationPath(target) ELSE <<target>>
           IN  /\ events' = Append(events, e)
               /\ invocations' = invocations \o callsAlong(path, e, Len(events) + 1)
    /\ UNCHANGED <<scannerVars, uiVars, qry, qcall, listeners>>

NextDelegate ==
    \/ qryNew
    \/ qryDelegate
    \/ dispatchEvent

SpecDelegate == InitPage /\ [][NextDelegate]_vars

(***************************************************************************)
(* QryEnv.js and QryApp (src/unnamed/part_002): toasts, timers and the     *)
(* loading overlay.  Time is Date.now(); a setTimeout callback runs when   *)
(* it is the earliest one due, those due together in the order they were   *)
(* set.                                                                    *)
(***************************************************************************)
Frameworks == {"QryEnv", "QryApp"}

\* config.toastDuration, and the default of toast.error
toastDuration == 3000
errorDuration == 5000
\* the delay of the timer that shows a toast, in QryEnv and in QryApp
showDelayEnv == 10
showDelayApp == 50
\* the delay between fading a toast out and removing it
removeDelay == 300

\* the milliseconds that pass before a call is made
Delays == {0, 1, 400}

ToastTypes == {"success", "error"}

\* the ms / duration a toast of the type gets when none is passed
durationOf(type) == IF type = "error" THEN errorDuration ELSE toastDuration

\* $('#' + id): document.getElementById, the first element in document order
\* that has the id, 0 standing for null
toastById(ts, id) ==
    IF \E n \in 1..Len(ts) : ts[n].attached /\ ts[n].id = id
    THEN CHOOSE n \in 1..Len(ts) :
             /\ ts[n].attached /\ ts[n].id = id
             /\ \A k \in 1..(n - 1) : ~(ts[k].attached /\ ts[k].id = id)
    ELSE 0

\* the element appended to the container: QryEnv's has neither class, QryApp's
\* starts with translate-x-full opacity-0
newToast(fw, id, type) ==
    [id |-> id, type |-> type, attached |-> TRUE, show |-> FALSE, hide |-> fw = "QryApp",
     handlers |-> <<>>, wasShown |-> FALSE]

\* toast.show(type, msg, ms) of #initToast, called at the time at: the
\* element is appended, looked up again by its id, its close button gets a
\* click handler, and the two timers are set
show(fw, ts, tm, type, at) ==
    LET id == at
        appended == Append(ts, newToast(fw, id, type))
        t == toastById(appended, id)
        handler == IF fw = "QryEnv" THEN [kind |-> "close", node |-> t, id |-> id]
                   ELSE [kind |-> "removeToast", node |-> 0, id |-> id]
        bound == IF t = 0 THEN appended
                 ELSE [appended EXCEPT ![t].handlers = Append(@, handler)]
    IN  [toasts |-> bound,
         timers |-> tm \o <<[due |-> at + (IF fw = "QryEnv" THEN showDelayEnv ELSE showDelayApp),
                             kind |-> "show", node |-> t, id |-> id],
                            [due |-> at + durationOf(type),
                             kind |-> handler.kind, node |-> handler.node, id |-> id]>>]

\* the callback of the show timer: t.cls('+show'), and in QryApp
\* toast.cls('-translate-x-full -opacity-0 +translate-x-0 +opacity-100')
showClasses(fw, ts, t) ==
    IF t = 0 THEN ts
    ELSE [ts EXCEPT ![t].show = TRUE,
                    ![t].hide = IF fw = "QryApp" THEN FALSE ELSE @,
                    ![t].wasShown = @ \/ ts[t].attached]

\* close of QryEnv (t captured) and #removeToast(toastId) of QryApp (the
\* element looked up by id when it runs): the classes, then the remove timer
closeToast(fw, ts, tm, h, at) ==
    LET t == IF h.kind = "close" THEN h.node ELSE toastById(ts, h.id)
    IN  IF t = 0 THEN [toasts |-> ts, timers |-> tm]
        ELSE [toasts |-> [ts EXCEPT ![t].hide = TRUE,
                                    ![t].show = IF fw = "QryEnv" THEN FALSE ELSE @],
              timers |-> Append(tm, [due |-> at + removeDelay, kind |-> "remove",
                                     node |-> t, id |-> ts[t].id])]

\* the click handlers of one button, run in the order they were added
RECURSIVE runHandlers(_, _, _, _, _)
runHandlers(fw, ts, tm, hs, at) ==
    IF Len(hs) = 0 THEN [toasts |-> ts, timers |-> tm]
    ELSE LET r == closeToast(fw, ts, tm, hs[1], at)
         IN  runHandlers(fw, r.toasts, r.timers, Tail(hs), at)

\* the timer that runs next
nextTimer ==
    CHOOSE k \in 1..Len(timers) :
        \A j \in 1..Len(timers) :
            \/ timers[k].due < timers[j].due
            \/ timers[k].due = timers[j].due /\ k <= j

withoutTimer(tm, k) == SubSeq(tm, 1, k - 1) \o SubSeq(tm, k + 1, Len(tm))

\* no timer is due before the time at
noneDueBefore(at) == \A k \in 1..Len(timers) : timers[k].due >= at

later(a, b) == IF a > b THEN a ELSE b

\* new QryEnv(config) / new QryApp(config): init() creates the toast
\* container and the hidden loading overlay
newEnv ==
    /\ framework = "none"
    /\ framework' \in Frameworks
    /\ loadingHidden' = TRUE
    /\ UNCHANGED <<scannerVars, qryVars, now, toasts, timers, clicks, calls>>

\* this.success(msg) / this.error(msg), some milliseconds after the last step
envToast ==
    /\ framework \in Frameworks
    /\ Len(toasts) < MaxToasts
    /\ \E type \in ToastTypes, d \in Delays :
           /\ noneDueBefore(now + d)
           /\ now' = now + d
           /\ LET r == show(framework, toasts, timers, type, now + d)
              IN  toasts' = r.toasts /\ timers' = r.timers
    /\ UNCHANGED <<scannerVars, qryVars, framework, clicks, loadingHidden, calls>>

\* the show timer runs
timerShow ==
    /\ timers # <<>>
    /\ timers[nextTimer].kind = "show"
    /\ now' = later(now, timers[nextTimer].due)
    /\ toasts' = showClasses(framework, toasts, timers[nextTimer].node)
    /\ timers' = withoutTimer(timers, nextTimer)
    /\ UNCHANGED <<scannerVars, qryVars, framework, clicks, loadingHidden, calls>>

\* the timer set with the toast's duration runs: close, or #removeToast
timerClose ==
    /\ timers # <<>>
    /\ timers[nextTimer].kind \in {"close", "removeToast"}
    /\ now' = later(now, timers[nextTimer].due)
    /\ LET r == closeToast(framework, toasts, withoutTimer(timers, nextTimer),
                           timers[nextTimer], now')
       IN  toasts' = r.toasts /\ timers' = r.timers
    /\ UNCHANGED <<scannerVars, qryVars, framework, clicks, loadingHidden, calls>>

\* setTimeout(() => t.remove(), 300) runs
timerRemove ==
    /\ timers # <<>>
    /\ timers[nextTimer].kind = "remove"
    /\ now' = later(now, timers[nextTimer].due)
    /\ toasts' = [toasts EXCEPT ![timers[nextTimer].node].attached = FALSE]
    /\ timers' = withoutTimer(timers, nextTimer)
    /\ UNCHANGED <<scannerVars, qryVars, framework, clicks, loadingHidden, calls>>

\* the user clicks the close button of a toast in the container
clickClose ==
    /\ clicks < MaxClicks
    /\ \E n \in 1..Len(toasts) :
           /\ toasts[n].attached
           /\ LET r == runHandlers(framework, toasts, timers, toasts[n].handlers, now)
              IN  toasts' = r.toasts /\ timers' = r.timers
    /\ clicks' = clicks + 1
    /\ UNCHANGED <<scannerVars, qryVars, framework, now, loadingHidden, calls>>

\* QryEnv.action(name, fn, { toast, loading }) up to `await fn()`
envAction ==
    /\ framework = "QryEnv"
    /\ Len(calls) < MaxCalls
    /\ \E toast \in BOOLEAN, loading \in BOOLEAN :
           /\ calls' = Append(calls, [method |-> "action", toast |-> toast,
                                      loading |-> loading, state |-> "pending"])
           /\ loadingHidden' = IF loading THEN FALSE ELSE loadingHidden
    /\ UNCHANGED <<scannerVars, qryVars, framework, now, toasts, timers, clicks>>

\* QryEnv.api(url, { loading }) up to `await fetch(url, cfg)`
envApi ==
    /\ framework = "QryEnv"
    /\ Len(calls) < MaxCalls
    /\ \E loading \in BOOLEAN :
           /\ calls' = Append(calls, [method |-> "api", toast |-> FALSE,
                                      loading |-> loading, state |-> "pending"])
           /\ loadingHidden' = IF loading THEN FALSE ELSE loadingHidden
    /\ UNCHANGED <<scannerVars, qryVars, framework, now, toasts, timers, clicks>>

\* the finally block of action and api: if (loading) this.loading(false)
hiddenAfter(cs, i) == IF cs[i].loading THEN TRUE ELSE loadingHidden

\* fn() of an action settles: the success toast, or the error toast and the
\* rethrow; then the finally block
actionSettles ==
    /\ \E i \in 1..Len(calls), outcome \in {"resolved", "rejected"}, d \in Delays :
           /\ calls[i].method = "action"
           /\ calls[i].state = "pending"
           /\ noneDueBefore(now + d)
           /\ now' = now + d
           /\ IF outcome = "rejected" \/ calls[i].toast
              THEN /\ Len(toasts) < MaxToasts
                   /\ LET r == show(framework, toasts, timers,
                                    IF outcome = "rejected" THEN "error" ELSE "success",
                                    now + d)
                      IN  toasts' = r.toasts /\ timers' = r.timers
              ELSE UNCHANGED <<toasts, timers>>
           /\ calls' = [calls EXCEPT ![i].state = outcome]
           /\ loadingHidden' = hiddenAfter(calls, i)
    /\ UNCHANGED <<scannerVars, qryVars, framework, clicks>>

\* fetch of an api call settles: the parsed body, or logger.error and the
\* rethrow; then the finally block
apiSettles ==
    /\ \E i \in 1..Len(calls), outcome \in {"resolved", "rejected"}, d \in Delays :
           /\ calls[i].method = "api"
           /\ calls[i].state = "pending"
           /\ noneDueBefore(now + d)
           /\ now' = now + d
           /\ calls' = [calls EXCEPT ![i].state = outcome]
           /\ loadingHidden' = hiddenAfter(calls, i)
    /\ UNCHANGED <<scannerVars, qryVars, framework, toasts, timers, clicks>>

NextToast ==
    \/ newEnv
    \/ envToast
    \/ timerShow
    \/ timerClose
    \/ timerRemove
    \/ clickClose

\* a page that constructs one QryEnv or QryApp and shows toasts
SpecToast == InitPage /\ [][NextToast]_vars

NextLoading ==
    \/ newEnv
    \/ envAction
    \/ envApi
    \/ actionSettles
    \/ apiSettles
    \/ timerShow
    \/ timerClose
    \/ timerRemove

\* a page that constructs one QryEnv and calls action and api
SpecLoading == InitPage /\ [][NextLoading]_vars

(***************************************************************************)
(* Properties of the scanner.                                              *)
(***************************************************************************)
runEnded == pc \in {"resolved", "rejected"}

\* C1: at the end of every run, filesProcessed + skippedFiles is the number
\* of entries processFiles stat-ed successfully that are not directories
C1_ProcessedPlusSkipped ==
    runEnded => stats.filesProcessed + stats.skippedFiles = nonDirStatOk

\* the listing of directory d fails in both walks of the run
listingFails(d) == Fails("readdir", "tree", d) /\ Fails("readdir", "files", d)

errorsAbout(path) == {k \in 1..Len(stats.errors) : stats.errors[k].path = path}

hasSection(path) == \E k \in 1..Len(out) : out[k].kind = "file" /\ out[k].path = path

siblings(d) ==
    {e \in tree : /\ e.path # d
                  /\ Len(e.path) = Len(d)
                  /\ SubSeq(e.path, 1, Len(d) - 1) = SubSeq(d, 1, Len(d) - 1)}

\* C2: a first run over a tree with a subdirectory whose listing fails ends
\* with exactly one error for that directory, a section for every eligible
\* sibling file, and the summary as the last chunk of the report
C2_UnreadableSubdirectory ==
    \A d \in Dirs(tree) \ {rootDir} :
        (pc = "resolved" /\ runs = 1 /\ listingFails(d)) =>
            /\ Cardinality(errorsAbout(d)) = 1
            /\ \A e \in siblings(d) :
                   (~e.isDirectory /\ contentEligible(e.path)) => hasSection(e.path)
            /\ out[Len(out)].kind = "summary"

counters(s) ==
    <<s.filesProcessed, s.skippedFiles, s.totalSize, s.totalLines, s.errors, s.warnings>>

\* C3: the statistics at the end of a second run over the unchanged tree are
\* those at the end of the first run
C3_FreshStatistics ==
    Len(runEnd) >= 2 => counters(runEnd[2]) = counters(runEnd[1])

\* C4: the process main() ran in ends with a non-zero status, the error
\* logged, when the header write or the tree append failed
C4_ExitNonZero ==
    (pc = "exited" /\ rejection.at \in {"header", "tree"}) =>
        /\ exitCode # 0
        /\ \E k \in 1..Len(console) : console[k].level = "error"

\* C5: once a write to the report file has failed, at whichever step, the
\* run has rejected with that error (and so does nothing more)
C5_WriteFailureIsFatal ==
    writeFailed =>
        /\ pc \in {"rejected", "exited"}
        /\ rejection.op \in {"writeFile", "appendFile"}

\* a step of processFiles that records an error about the file in process
fileErrorStep ==
    /\ Len(stats'.errors) = Len(stats.errors) + 1
    /\ stats'.errors[Len(stats'.errors)].kind = "processing"

accounted(s) == <<s.filesProcessed, s.totalSize, s.totalLines, s.fileTypes, s.largestFiles>>

\* C6: a step that records an error about a file leaves exactly one more
\* message in stats.errors than there was when processFiles turned to the
\* file, leaves filesProcessed, totalSize, totalLines, fileTypes and
\* largestFiles as they were then, and goes on with the loop
C6_FailedFileLeavesNoTrace ==
    [][fileErrorStep =>
          /\ Len(stats'.errors) = Len(statsAtEntry'.errors) + 1
          /\ accounted(stats') = accounted(statsAtEntry')
          /\ pc' = "files"]_vars

\* the walker is about to stat an entry, and the stat fails
walkStatFails ==
    /\ pc = "tree"
    /\ walk[Len(walk)].state = "filter"
    /\ LET filePath == Append(walk[Len(walk)].dir, Head(walk[Len(walk)].files))
       IN  /\ ~isDocFile(variant, basename(filePath))
           /\ ~isIgnoredInTree(variant, config.ignoredPaths, filePath)
           /\ Fails("stat", "tree", filePath)

\* the walker is about to list a directory, and the listing fails
walkReaddirFails ==
    /\ pc = "tree"
    /\ walk[Len(walk)].state = "readdir"
    /\ Fails("readdir", "tree", walk[Len(walk)].dir)

\* C7: in the directory walk a failing stat adds a message to
\* stats.warnings, a failing listing adds a message to stats.errors, and in
\* both cases the walk goes on
C7_WalkFailuresRecorded ==
    [][/\ walkStatFails =>
              /\ Len(stats'.warnings) = Len(stats.warnings) + 1
              /\ pc' = "tree"
       /\ walkReaddirFails =>
              /\ Len(stats'.errors) = Len(stats.errors) + 1
              /\ pc' \in {"tree", "appendTree"}]_vars

\* C8: when deleting the old report fails with an error other than ENOENT,
\* generateOverview rejects with it and writes no header
C8_UnlinkErrorPropagates ==
    unlinkResult = "EACCES" =>
        /\ pc \in {"rejected", "exited"}
        /\ rejection.op = "unlink"

treePosition(path) ==
    CHOOSE k \in 1..Len(directoryStructure) : directoryStructure[k].path = path

inTree(path) == \E k \in 1..Len(directoryStructure) : directoryStructure[k].path = path

\* C9: the sections of the files are appended in the order of the files'
\* lines in the directory tree of the same run
C9_SectionsInTreeOrder ==
    pc = "resolved" =>
        \A i, j \in 1..Len(processedFiles) :
            (/\ i < j
             /\ inTree(processedFiles[i].path)
             /\ inTree(processedFiles[j].path)) =>
                treePosition(processedFiles[i].path) < treePosition(processedFiles[j].path)

\* C10: in a run without failures, an entry of the directory tree has no
\* line in the rendered tree exactly when one of the five ignore rules of
\* shouldProcessContent matches its relative path
C10_WalkerAppliesPathFilter ==
    (pc = "appendTree" /\ faults = {}) =>
        \A e \in tree : ~inTree(e.path) <=> isIgnored(config.ignoredPaths, e.path)

(***************************************************************************)
(* Properties of a run over the further trees, and of direct calls.        *)
(***************************************************************************)
\* the file walk of the run gets to the file and stats it: no listing of a
\* directory above it, and no stat on the way to it, fails
reached(path) ==
    /\ \A k \in 0..(Len(path) - 1) : ~Fails("readdir", "files", SubSeq(path, 1, k))
    /\ \A k \in 1..Len(path) : ~Fails("stat", "files", SubSeq(path, 1, k))
    /\ ~Fails("stat2", "files", path)

oversize(e) == ~e.isDirectory /\ e.size > config.maxFileSize

warningsAbout(path) == {k \in 1..Len(stats.warnings) : stats.warnings[k].path = path}

RECURSIVE sumOfSizes(_)
sumOfSizes(s) == IF Len(s) = 0 THEN 0 ELSE s[1].size + sumOfSizes(Tail(s))

\* C11: at the end of a full run of a new Scanner, every file larger than
\* maxFileSize that the file walk reached has exactly one warning naming its
\* path, has no section in the report, is none of the processed files, and
\* its size is no part of totalSize
C11_OversizeFileWarnedOnce ==
    pc = "resolved" =>
        \A e \in tree :
            (oversize(e) /\ reached(e.path)) =>
                /\ Cardinality(warningsAbout(e.path)) = 1
                /\ stats.warnings[CHOOSE k \in warningsAbout(e.path) : TRUE].kind = "too large"
                /\ ~hasSection(e.path)
                /\ \A k \in 1..Len(processedFiles) : processedFiles[k].path # e.path
                /\ stats.filesProcessed = Len(processedFiles)
                /\ \A k \in 1..Len(stats.largestFiles) :
                       stats.largestFiles[k].path # relative(e.path)
                /\ stats.totalSize = sumOfSizes(stats.largestFiles)

\* a run ended with an oversize file skipped and another file processed
C11_Witness ==
    /\ pc = "resolved"
    /\ stats.filesProcessed >= 1
    /\ \E e \in tree : oversize(e) /\ reached(e.path) /\ warningsAbout(e.path) # {}

\* the sizes of the files processed so far in the run: those whose section
\* has been appended, and the one whose section is being appended
processedSizes ==
    [k \in 1..Len(processedFiles) |-> processedFiles[k].body.size]
    \o (IF pc = "appendSection" THEN <<cur.size>> ELSE <<>>)

RECURSIVE insertDescending(_, _)
insertDescending(n, s) ==
    IF Len(s) = 0 THEN <<n>>
    ELSE IF n >= s[1] THEN <<n>> \o s
    ELSE <<s[1]>> \o insertDescending(n, Tail(s))

RECURSIVE descending(_)
descending(s) == IF Len(s) = 0 THEN <<>> ELSE insertDescending(s[1], descending(Tail(s)))

firstTen(s) == SubSeq(s, 1, IF Len(s) < 10 THEN Len(s) ELSE 10)

\* C12: in every state of a run stats.largestFiles has at most 10 entries,
\* is sorted by non-increasing size, and its sizes are the (up to) 10 largest
\* sizes of the files processed so far
C12_LargestFilesTopTen ==
    pc \notin {"constructed", "exited"} =>
        /\ Len(stats.largestFiles) <= 10
        /\ \A k \in 1..(Len(stats.largestFiles) - 1) :
               stats.largestFiles[k].size >= stats.largestFiles[k + 1].size
        /\ [k \in 1..Len(stats.largestFiles) |-> stats.largestFiles[k].size]
               = firstTen(descending(processedSizes))

\* the file lies under a directory named node_modules, at whatever depth
underNodeModules(path) == \E k \in 1..(Len(path) - 1) : path[k] = N_node_modules

ignoresNodeModules == \E i \in 1..Len(config.ignoredPaths) : config.ignoredPaths[i] = N_node_modules

\* C13: with 'node_modules' among ignoredPaths, in every state of a run no
\* file under a directory named node_modules has a section in the report or
\* an entry in largestFiles, and totalSize is the sum of the sizes of the
\* other files counted
C13_NodeModulesExcluded ==
    ignoresNodeModules =>
        /\ \A e \in tree :
               (~e.isDirectory /\ underNodeModules(e.path)) =>
                   /\ ~hasSection(e.path)
                   /\ \A k \in 1..Len(stats.largestFiles) :
                          stats.largestFiles[k].path # relative(e.path)
        /\ stats.totalSize = sumOfSizes(stats.largestFiles)

\* a run ended after the file walk met files under node_modules at the root
\* and below src, skipped them, and processed another file
C13_Witness ==
    /\ pc = "resolved"
    /\ ignoresNodeModules
    /\ stats.filesProcessed >= 1
    /\ stats.skippedFiles >= 2
    /\ \E e \in tree : Len(e.path) = 2 /\ underNodeModules(e.path) /\ reached(e.path)
    /\ \E e \in tree : Len(e.path) = 3 /\ underNodeModules(e.path) /\ reached(e.path)

\* the reserved names of the report and of the scanner script
reservedNames ==
    IF variant = "generic"
    THEN {<<"_", "q", "r", "y">> \o S_Overview_txt, N_generate_overview}
    ELSE {N_JavaWeb_txt, N_ia_scanner, N_scanner}

acceptedExtensionSet == {config.acceptedExtensions[i] : i \in 1..Len(config.acceptedExtensions)}

\* what the eligibility of a path depends on besides the ignore rules and
\* the stat: the reserved names, the extension and the leading '.'
eligibleName(path) ==
    LET filename == path[Len(path)]
    IN  /\ filename \notin reservedNames
        /\ toLowerCase(extname(filename)) \in acceptedExtensionSet
        /\ filename[1] # "."

\* C14: shouldProcessContent returns true exactly when the path is not
\* ignored, its file name is not reserved, its lower-cased extension is one
\* of acceptedExtensions, the name does not begin with '.', and the stat
\* succeeds with a size of at most maxFileSize
C14_EligibleIff ==
    call.fn = "shouldProcessContent" =>
        (call.value <=>
            /\ ~isIgnored(config.ignoredPaths, call.path)
            /\ eligibleName(call.path)
            /\ call.statOk
            /\ call.size <= config.maxFileSize)

\* a call returned true for a file of exactly maxFileSize bytes
C14_Witness ==
    /\ call.fn = "shouldProcessContent"
    /\ call.value
    /\ call.size = config.maxFileSize

noWildcard(pattern) == \A i \in 1..Len(pattern) : pattern[i] # "*"

\* the four rules for a pattern without '*', on the relative path as a string
ruleMatches(pattern, path) ==
    LET relativePath == join(path, <<"/">>)
    IN  \/ relativePath = pattern
        \/ startsWith(relativePath, pattern \o <<"/">>)
        \/ includes(relativePath, <<"/">> \o pattern \o <<"/">>)
        \/ path[Len(path)] = pattern

\* the pattern is a run of whole segments of the path
wholeSegments(pattern, path) ==
    \E j \in 1..Len(path) : \E m \in j..Len(path) :
        join(SubSeq(path, j, m), <<"/">>) = pattern

\* C15: for patterns without '*', a call of shouldProcessContent for a file
\* that is eligible but for the ignore rules returns false exactly when one
\* of the patterns equals the relative path, or is followed by '/' at its
\* start, or stands between two '/' in it, or equals the base name; and a
\* pattern that makes it return false is a run of whole segments of the path
C15_IgnoreRules ==
    (/\ call.fn = "shouldProcessContent"
     /\ eligibleName(call.path)
     /\ call.statOk
     /\ call.size <= config.maxFileSize
     /\ \A i \in 1..Len(config.ignoredPaths) : noWildcard(config.ignoredPaths[i])) =>
        /\ ~call.value <=>
               \E i \in 1..Len(config.ignoredPaths) :
                   ruleMatches(config.ignoredPaths[i], call.path)
        /\ ~call.value =>
               \E i \in 1..Len(config.ignoredPaths) :
                   wholeSegments(config.ignoredPaths[i], call.path)

\* a call returned true for builder/x.js with the pattern 'build'
C15_Witness ==
    /\ call.fn = "shouldProcessContent"
    /\ config.ignoredPaths = <<N_build>>
    /\ call.path = <<N_builder, N_x_js>>
    /\ call.value

\* the header of the run has been written and the run has not ended
headerWritten ==
    pc \in {"tree", "appendTree", "files", "shouldProcess", "readFile", "hash",
            "appendSection", "appendToc", "appendSummary"}

isPrefix(s, t) == Len(s) <= Len(t) /\ SubSeq(t, 1, Len(s)) = s

\* the report o is the header, the tree, the heading, the sections of the
\* files pf in their order, extra further chunks, and the summary
layout(o, pf, extra) ==
    /\ Len(o) = Len(pf) + Len(extra) + 4
    /\ o[1].kind = "header"
    /\ o[2].kind = "tree"
    /\ o[3].kind = "heading"
    /\ \A k \in 1..Len(pf) : o[3 + k].kind = "file" /\ o[3 + k].path = pf[k].path
    /\ \A k \in 1..Len(extra) : o[3 + Len(pf) + k].kind = extra[k]
    /\ o[Len(o)].kind = "summary"

tocChunk ==
    IF variant = "javaweb" /\ config.includeTOC /\ Len(processedFiles) > 0
    THEN <<"toc">> ELSE <<>>

hashesOf(k) ==
    {<<runInfo[k].processedFiles[n].path, runInfo[k].processedFiles[n].body.hash>> :
        n \in 1..Len(runInfo[k].processedFiles)}

rendered(e) ==
    /\ \A k \in 1..Len(e.path) :
           LET above == SubSeq(e.path, 1, k)
           IN  /\ ~isDocFile(variant, above[k])
               /\ ~isIgnoredInTree(variant, config.ignoredPaths, above)
               /\ ~Fails("stat", "tree", above)
    /\ \A k \in 0..(Len(e.path) - 1) : ~Fails("readdir", "tree", SubSeq(e.path, 1, k))

isDirectoryAt(path) == \E e \in tree : e.path = path /\ e.isDirectory

\* ascending name order: at the first place where two names differ, the
\* earlier character, or the end of the name, comes first
nameBefore(a, b) ==
    \E k \in 1..(Len(b)) :
        /\ \A i \in 1..(k - 1) : i <= Len(a) /\ a[i] = b[i]
        /\ \/ k = Len(a) + 1
           \/ k <= Len(a) /\ charRank(a[k]) < charRank(b[k])

\* the order of two entries of one directory: directories first, each group
\* by name
siblingBefore(p, q) ==
    \/ isDirectoryAt(p) /\ ~isDirectoryAt(q)
    \/ /\ isDirectoryAt(p) = isDirectoryAt(q)
       /\ nameBefore(p[Len(p)], q[Len(q)])

\* the order of two lines of the tree: a directory before what is under it,
\* and otherwise as the entries order where the two paths part
lineBefore(p, q) ==
    \/ Len(p) < Len(q) /\ SubSeq(q, 1, Len(p)) = p
    \/ \E k \in 1..Len(p) :
           /\ k <= Len(q)
           /\ SubSeq(p, 1, k - 1) = SubSeq(q, 1, k - 1)
           /\ p[k] # q[k]
           /\ siblingBefore(SubSeq(p, 1, k), SubSeq(q, 1, k))

\* C18: the rendered tree has one line for every entry the walker renders,
\* at every level the directories before the files and each group in
\* ascending name order, so that the lines and their order depend on the
\* entries alone and not on the order of the directory listings
C18_TreeSorted ==
    pc = "appendTree" =>
        /\ {directoryStructure[k].path : k \in 1..Len(directoryStructure)}
               = {e.path : e \in {x \in tree : rendered(x)}}
        /\ \A k, l \in 1..Len(directoryStructure) :
               k < l => lineBefore(directoryStructure[k].path, directoryStructure[l].path)

\* a tree was rendered with a directory before a file of an earlier name,
\* from a listing that had the file first
C18_Witness ==
    /\ pc = "appendTree"
    /\ inTree(<<N_src, N_node_modules>>)
    /\ inTree(<<N_src, N_a_js>>)
    /\ listing[<<N_src>>] = <<N_a_js, N_node_modules>>
    /\ treePosition(<<N_src, N_node_modules>>) < treePosition(<<N_src, N_a_js>>)

\* the entry at path has the last line among the entries of its directory
lastSibling(path) ==
    \A l \in 1..Len(directoryStructure) :
        LET other == directoryStructure[l].path
        IN  (/\ Len(other) = Len(path)
             /\ SubSeq(other, 1, Len(path) - 1) = SubSeq(path, 1, Len(path) - 1)) =>
                l <= treePosition(path)

under(dir, path) == Len(dir) < Len(path) /\ SubSeq(path, 1, Len(dir)) = dir

\* C19: the line of an entry at depth d is d ancestor segments, four spaces
\* for an ancestor that was the last of its siblings and a bar with three
\* spaces otherwise, then the corner glyph for a last sibling and the tee
\* glyph otherwise, then the name; and the lines of what is under a
\* directory follow its line with no other line in between
C19_TreeGlyphs ==
    pc = "appendTree" =>
        \A k \in 1..Len(directoryStructure) :
            LET line == directoryStructure[k]
                d == Len(line.path) - 1
            IN  /\ Len(line.prefix) = d + 1
                /\ \A i \in 1..d :
                       line.prefix[i] = IF lastSibling(SubSeq(line.path, 1, i))
                                        THEN "    " ELSE "|   "
                /\ line.prefix[d + 1] = IF lastSibling(line.path) THEN "+-- " ELSE "|-- "
                /\ line.name = line.path[Len(line.path)]
                /\ \A l \in 1..Len(directoryStructure) :
                       under(line.path, directoryStructure[l].path) =>
                           /\ l > k
                           /\ \A m \in (k + 1)..l :
                                  under(line.path, directoryStructure[m].path)

\* a tree was rendered with a line at depth 2 under a last directory and a
\* directory that is not last, and a line at depth 1 under a directory that
\* is not last
C19_Witness ==
    /\ pc = "appendTree"
    /\ inTree(<<N_src, N_node_modules, N_c_js>>)
    /\ directoryStructure[treePosition(<<N_src, N_node_modules, N_c_js>>)].prefix
           = <<"    ", "|   ", "+-- ">>
    /\ inTree(<<N_node_modules, N_index_js>>)
    /\ directoryStructure[treePosition(<<N_node_modules, N_index_js>>)].prefix
           = <<"|   ", "+-- ">>

\* the number of '\n' characters of the content of the file at path
newlines(path) ==
    LET content == (CHOOSE e \in tree : e.path = path).content
    IN  Cardinality({i \in 1..Len(content) : content[i] = "\n"})

RECURSIVE sumOfLines(_)
sumOfLines(pf) ==
    IF Len(pf) = 0 THEN 0 ELSE newlines(pf[1].path) + 1 + sumOfLines(Tail(pf))

\* the section of a file carries a line count (the JavaWeb scanner leaves it
\* out when includeLineCount is off)
recordsLines == variant = "generic" \/ config.includeLineCount

\* C20: the line count in the section of every processed file is the number
\* of '\n' of its content plus one; at the end of a run totalLines is the sum
\* of these counts over the processed files; and the scan of a.txt (10
\* bytes, no '\n') and b.md (0 bytes) with acceptedExtensions .txt and .md ends
\* with filesProcessed = 2, totalSize = 10 and 1 line for b.md
C20_LineCounts ==
    /\ \A k \in 1..Len(out) :
           (out[k].kind = "file" /\ recordsLines) =>
               out[k].body.lines = newlines(out[k].path) + 1
    /\ pc = "resolved" => stats.totalLines = sumOfLines(processedFiles)
    /\ (/\ pc = "resolved"
        /\ tree = TreeC
        /\ faults = {}
        /\ config.maxFileSize >= 10
        /\ recordsLines) =>
           /\ stats.filesProcessed = 2
           /\ stats.totalSize = 10
           /\ \E k \in 1..Len(out) :
                  /\ out[k].kind = "file"
                  /\ out[k].path = <<N_b_md>>
                  /\ out[k].body.lines = 1

(***************************************************************************)
(* Properties of formatFileSize.                                           *)
(***************************************************************************)
\* the natural number a run of decimal digits writes
RECURSIVE numberOf(_)
numberOf(chars) ==
    IF Len(chars) = 0 THEN 0
    ELSE 10 * numberOf(SubSeq(chars, 1, Len(chars) - 1))
             + (CHOOSE d \in 0..9 : DigitChars[d + 1] = chars[Len(chars)])

\* the unit the claim gives a byte count: B below 1024, KB below 1024^2, MB
\* below 1024^3, GB from there on
claimedUnit(d) ==
    IF d[4] > 0 THEN 3 ELSE IF d[3] > 0 THEN 2 ELSE IF d[2] > 0 THEN 1 ELSE 0

\* bytes / 1024^j rounded to two decimals, in hundredths: the whole part
\* times 100 plus floor((floor(200 * fraction) + 1) / 2)
claimedHundredths(d) ==
    LET j == claimedUnit(d)
        twoHundredFold ==
            CASE j = 0 -> 0
              [] j = 1 -> (200 * d[1]) \div 1024
              [] j = 2 -> (200 * (d[2] * 1024 + d[1])) \div (1024 * 1024)
              [] j = 3 -> (200 * (d[3] * 1024 + d[2]) + (200 * d[1]) \div 1024)
                              \div (1024 * 1024)
    IN  100 * d[j + 1] + (twoHundredFold + 1) \div 2

\* C21: formatFileSize picks B below 1024 bytes, KB below 1024^2, MB below
\* 1024^3 and GB for every larger count, and prints bytes / 1024^k rounded to
\* two decimals, a space and the unit; 1500 bytes give "1.46 KB"
C21_FormatFileSize ==
    call.fn = "formatFileSize" =>
        LET d == call.bytes.digits
            text == call.value
            j == claimedUnit(d)
            unit == <<<<"B">>, <<"K", "B">>, <<"M", "B">>, <<"G", "B">>>>[j + 1]
            p == Len(text) - Len(unit) - 3
        IN  /\ p >= 2
            /\ \A i \in 1..(p - 1) : \E c \in 1..10 : DigitChars[c] = text[i]
            /\ text[1] # "0" \/ p = 2
            /\ text[p] = "."
            /\ \A i \in (p + 1)..(p + 2) : \E c \in 1..10 : DigitChars[c] = text[i]
            /\ text[p + 3] = " "
            /\ SubSeq(text, p + 4, Len(text)) = unit
            /\ 100 * numberOf(SubSeq(text, 1, p - 1))
                   + numberOf(SubSeq(text, p + 1, p + 2)) = claimedHundredths(d)
            /\ d = <<476, 1, 0, 0>> => text = <<"1", ".", "4", "6", " ", "K", "B">>

C21_Witness ==
    /\ call.fn = "formatFileSize"
    /\ call.bytes = number(1024, 0, 0, 0)
    /\ call.value = <<"1", "0", "2", "4", ".", "0", "0", " ", "G", "B">>

(***************************************************************************)
(* Properties of Qry.js.                                                   *)
(***************************************************************************)
\* the elements a Qry object wraps
wrapped(q) ==
    IF q.isCollection THEN q.elements
    ELSE IF q.element = 0 THEN <<>> ELSE <<q.element>>

\* an element and its ancestors
RECURSIVE ancestorsOrSelf(_)
ancestorsOrSelf(e) ==
    IF e = 0 THEN {} ELSE {e} \cup ancestorsOrSelf(Document[e].parent)

siblingsOf(e) == {f \in Elements : f # e /\ Document[f].parent = Document[e].parent}

\* no element satisfies the request of the traversal call c
noSuchElement(c) ==
    LET w == wrapped(c.receiver)
    IN  \/ w = <<>>
        \/ /\ c.method = "closest"
           /\ \A a \in ancestorsOrSelf(w[1]) : ~matches(a, c.arg)
        \/ c.method = "parent" /\ Document[w[1]].parent = 0
        \/ c.method = "next" /\ \A f \in siblingsOf(w[1]) : f < w[1]
        \/ c.method = "prev" /\ \A f \in siblingsOf(w[1]) : f > w[1]
        \/ /\ c.method = "eq"
           /\ (IF c.arg < 0 THEN Len(w) + c.arg ELSE c.arg) \notin 0..(Len(w) - 1)

\* C22: closest, parent, next, prev, eq, first and last return an empty Qry
\* (exists false, length 0, els empty) whenever no element satisfies the
\* request
C22_EmptyWhenNoMatch ==
    (qcall.method # "none" /\ noSuchElement(qcall)) =>
        /\ ~exists(qcall.value)
        /\ length(qcall.value) = 0
        /\ els(qcall.value) = <<>>

\* C23: a handler registered with delegate(selector, event, handler) is only
\* invoked for an event whose target is, or lies inside, an element matching
\* the selector, and then with that element as `this`
C23_DelegateOnlyOnMatch ==
    \A i \in 1..Len(invocations) :
        LET target == events[invocations[i].event].target
            selector == listeners[invocations[i].handler].selector
        IN  /\ invocations[i].this \in ancestorsOrSelf(target)
            /\ matches(invocations[i].this, selector)

(***************************************************************************)
(* Properties of the order of the filesystem operations of a run.          *)
(***************************************************************************)
\* a file is between its stat and the end of its turn of the loop
fileInProcess == pc \in {"shouldProcess", "readFile", "hash", "appendSection"}

\* every activation but the innermost waits for the activation above it: in
\* the tree walk at the directory item whose walk that activation is, in the
\* file walk with its listing read; a file is in process only while every
\* activation waits, and the two walks never overlap
activationsWait ==
    /\ \A k \in 1..(Len(walk) - 1) :
           /\ walk[k].state = "render"
           /\ walk[k].i \in 1..Len(walk[k].validFiles)
           /\ walk[k].validFiles[walk[k].i].isDirectory
           /\ walk[k].validFiles[walk[k].i].path = walk[k + 1].dir
    /\ \A k \in 1..(Len(pfStack) - 1) :
           /\ pfStack[k].state = "loop"
           /\ Len(pfStack[k + 1].dir) = Len(pfStack[k].dir) + 1
           /\ SubSeq(pfStack[k + 1].dir, 1, Len(pfStack[k].dir)) = pfStack[k].dir
    /\ fileInProcess => pfStack # <<>> /\ pfStack[Len(pfStack)].state = "loop"
    /\ walk # <<>> => pc = "tree" /\ pfStack = <<>>
    /\ pfStack # <<>> => pc = "files" \/ fileInProcess

\* a step leaves every activation alone but the innermost one before it and
\* the innermost one after it
innermostOnly(stack, stackAfter) ==
    \A k \in 1..Len(stack) :
        (k < Len(stack) /\ k < Len(stackAfter)) => stackAfter[k] = stack[k]

\* a step that works on a file leaves the activations alone, and a step of
\* an activation leaves the file in process alone unless it is the stat that
\* takes up a file
oneAtATime ==
    /\ innermostOnly(walk, walk')
    /\ innermostOnly(pfStack, pfStack')
    /\ Len(walk') - Len(walk) \in {0 - 1, 0, 1} \/ walk' = <<>>
    /\ Len(pfStack') - Len(pfStack) \in {0 - 1, 0, 1} \/ pfStack' = <<>>
    /\ fileInProcess => pfStack' = pfStack
    /\ (pfStack' # pfStack /\ cur' # cur) => (pc = "files" /\ pc' = "shouldProcess")

\* C24: within one run at most one filesystem operation is outstanding: the
\* activations of the two walks form a chain in which every one but the
\* innermost waits for the next, each step of the run belongs to the
\* innermost activation or to the one file in process, and sibling
\* directories and files are never in process together
C24_OneOperationAtATime == [](activationsWait) /\ [][oneAtATime]_vars

\* the tree walk is three activations deep, in src/node_modules
C24_Witness ==
    /\ Len(walk) = 3
    /\ walk[3].dir = <<N_src, N_node_modules>>

\* a run has ended, and main after it
ended == pc \in {"resolved", "rejected", "exited"}

\* a run that resolved has the summary as the last part of the report, and
\* a run that rejected did so with an error of an operation on the report
endsProperly ==
    /\ pc = "resolved" => (out # <<>> /\ out[Len(out)].kind = "summary")
    /\ pc = "rejected" =>
           /\ rejection.op \in {"unlink", "writeFile", "appendFile"}
           /\ rejection.path = rootDir
           /\ rejection.at \in {"start", "header", "tree", "toc", "summary"}

\* no walk stats an entry twice
noRevisit ==
    \A i \in 1..Len(visited) : \A j \in 1..Len(visited) :
        i < j => visited[i] # visited[j]

\* C25: provided each filesystem operation returns, a run of generateOverview
\* over a finite tree, whatever operations fail, eventually ends; it ends
\* either resolved with the summary appended or rejected with an error of
\* the output file, and it visits no entry twice
C25_RunEnds == [](endsProperly /\ noRevisit) /\ ((pc = "unlink") ~> ended)

\* a run over the three-level tree has ended after a failure on the way
C25_Witness ==
    /\ pc = "resolved"
    /\ tree = TreeB
    /\ faults # {}
    /\ stats.errors # <<>>
    /\ Len(visited) >= 6

(***************************************************************************)
(* The report's tree against its sections.                                 *)
(***************************************************************************)
\* the directory tree written to the report has a line for path
hasTreeLine(path) ==
    \E k \in 1..Len(out) :
        /\ out[k].kind = "tree"
        /\ \E n \in 1..Len(out[k].body) : out[k].body[n].path = path

\* C26: in every state of a run, under each ignoredPaths list (the default
\* names, none, the multi-segment 'src/c.js', the wildcard 'sr*'), every file
\* with a section in the report has a line in the directory tree of the report
C26_SectionsHaveTreeLines ==
    \A e \in tree : hasSection(e.path) => hasTreeLine(e.path)

(***************************************************************************)
(* The file walk and the ignored directories.                              *)
(***************************************************************************)
\* the file walk has stat-ed path
statedByFileWalk(path) ==
    \E k \in 1..Len(visited) : visited[k] = [at |-> "files", path |-> path]

\* the files that lie under no directory named node_modules
filesOutsideNodeModules == {e \in tree : ~e.isDirectory /\ ~underNodeModules(e.path)}

\* C27: with 'node_modules' among ignoredPaths, in every state of a run the
\* file walk has stat-ed no entry under a directory named node_modules, no
\* warning and no error names such an entry, and skippedFiles counts files
\* outside those directories only
C27_IgnoredSubtreeUntouched ==
    ignoresNodeModules =>
        /\ \A e \in tree :
               underNodeModules(e.path) =>
                   /\ ~statedByFileWalk(e.path)
                   /\ errorsAbout(e.path) = {}
                   /\ warningsAbout(e.path) = {}
        /\ stats.skippedFiles <= Cardinality(filesOutsideNodeModules)

(***************************************************************************)
(* The report file among the files of rootDir.                             *)
(***************************************************************************)
reportPath == <<config.outputFile>>

\* the file whose content processFiles holds is the report
reportWasRead == pc \in {"hash", "appendSection"} /\ cur.path = reportPath

\* C28: in every state of a run, with the default outputFile and with a
\* custom one in rootDir that has an accepted extension, the report has no
\* line in the directory tree, no section among the file contents, and
\* processFiles has not read it
C28_ReportNeverEligible ==
    /\ ~hasTreeLine(reportPath)
    /\ ~hasSection(reportPath)
    /\ ~reportWasRead

(***************************************************************************)
(* Properties of QryEnv and QryApp.                                        *)
(***************************************************************************)
\* an action or api call made with loading: true has not settled
pendingLoading ==
    \E i \in 1..Len(calls) : calls[i].loading /\ calls[i].state = "pending"

\* C29: in every state, the loading overlay of a QryEnv is shown exactly
\* while an action or api call made with loading: true is pending: it stays
\* shown until the last of the overlapping calls has settled
C29_OverlayWhilePending ==
    framework = "QryEnv" => (loadingHidden <=> ~pendingLoading)

\* C30: once every timer has run, each toast that was appended to the
\* container has been shown and is removed from the DOM, whatever the times
\* of the toast calls and the clicks on close buttons
C30_ToastsShownThenRemoved ==
    timers = <<>> =>
        \A n \in 1..Len(toasts) : toasts[n].wasShown /\ ~toasts[n].attached

====
